---- MODULE Spec2Model ----
(***************************************************************************)
(* Verification model of the akz-tracker ingestion layer: the per-vessel   *)
(* listener managers (NMEA, AT4, SignalK), the AT4 binary frame            *)
(* reassembly / decode / acknowledge path, and the position pipelines that *)
(* hand records to the persistence sink (Location.create) and to the       *)
(* broadcast sink (broadcastFunc).                                         *)
(***************************************************************************)
EXTENDS Integers, Sequences, FiniteSets, TLC

VARIABLES
    \* ---- listener managers (nmea-listener-manager, at4-listener-manager,
    \*      signalk-manager)
    kind,        \* which manager class this run is about
    cfg,         \* Boat collection: per vessel, the port/url assignment
    inst,        \* every listener/service instance ever constructed
    listeners,   \* the manager's Map boatId -> instance (0 = no entry)
    calls,       \* async manager calls issued so far, with their position
    \* ---- one listener and its connections (at4-listener, nmea-listener,
    \*      signalk)
    proto,       \* protocol of the listener of this run: at4 / nmea / signalk
    parser,      \* which utils/at4 parser the listener requires
    lsnr,        \* which at4-listener the run is about
    assigned,    \* AT4Listener.assignedBoatId
    clients,     \* Map socket -> { imei, boatId, buffer }
    stream,      \* per socket, what the peer sends during the run
    sent,        \* per socket, how much of stream has been delivered
    handed,      \* per socket, the packets passed to processPacket, in order
    elog,        \* per socket, socket writes and downstream calls, in order
    tasks,       \* suspended async handlers (after their first await)
    split,       \* per socket: some chunk so far ended inside a frame
    boatImei,    \* Boat collection: per vessel, the stored imei field
    stateByMMSI, \* NMEAListener.stateByMMSI
    boatsByMMSI, \* SignalKService.boatsByMMSI
    \* ---- decoders run on one input (utils/nmea, utils/at4,
    \*      SignalKService.extractPositionFromDelta)
    fn,          \* the decoder this run applies
    input,       \* its input: lines, packets, a delta or a byte buffer
    lineNo,      \* parseNMEA: the loop index i (lines consumed so far);
                 \* utils/at4: the calls made so far
    currentState,\* parseNMEA: currentState; the listener: the state object
    positions,   \* parseNMEA: positions
    errors,      \* parseNMEA: errors
    result,      \* what the decoder returned, once it has returned
    \* ---- the TCP server of one listener and the sockets it accepted
    server,      \* this.server: "null" or "listening"
    sockets,     \* per socket: "fresh", "open", "ended", "error"
    \* ---- the Boat collection as the telemetry client queries it
    registry,    \* the identity codes of the Boat documents that carry one
    \* ---- a browser client that keeps one WebSocket (nmea-client.js,
    \*      the wsClient module)
    client,      \* which client this run is about
    conns,       \* every WebSocket object created so far: its readyState
    wsock,       \* _socket / ws: the object referenced, 0 for null
    enabled,     \* _enabled / autoReconnect
    timers,      \* every setTimeout made so far: "pending", "fired", "cleared"
    reconnectTimer, \* _reconnectTimer: the timeout referenced, 0 for null
    attempts,    \* _reconnectAttempts / reconnectAttempts
    connected    \* _connected

mgrVars == <<kind, cfg, inst, listeners, calls>>

lsnVars == <<proto, parser, lsnr, assigned, clients, stream, sent, handed,
             elog, tasks, split, boatImei, stateByMMSI, boatsByMMSI>>

decVars == <<fn, input, lineNo, currentState, positions, errors, result>>

srvVars == <<server, sockets>>

dbVars == <<registry>>

webVars == <<client, conns, wsock, enabled, timers, reconnectTimer, attempts,
             connected>>

vars == <<kind, cfg, inst, listeners, calls, proto, parser, lsnr, assigned,
          clients, stream, sent, handed, elog, tasks, split, boatImei,
          stateByMMSI, boatsByMMSI, fn, input, lineNo, currentState,
          positions, errors, result, server, sockets, registry, client, conns,
          wsock, enabled, timers, reconnectTimer, attempts, connected>>

----------------------------------------------------------------------------
(* Bounds of the manager model *)

MaxInst == 3      \* listener instances constructed in one run
MaxCalls == 2     \* manager calls issued in one run
MaxBoat == 2      \* vessels
MaxPort == 2      \* distinct port / url assignments
MaxEditBoat == 1  \* vessels whose assignment is edited during the run
MaxClients == 1   \* sockets open on one listener

Boats == 1..MaxBoat
Ports == 1..MaxPort
NoPort == 0            \* port field null / cleared
Absent == 0 - 1        \* no Boat document with this boatId

Kinds == {"nmea", "at4", "signalk"}

----------------------------------------------------------------------------
(* Manager helpers *)

\* listener.stop() / service.stop(): the instance releases its resources
\* (TCP: destroy every client socket, clear the set, close the server)
StopInst(ins, i) ==
    IF i = 0 THEN ins ELSE [ins EXCEPT ![i].st = "stopped", ![i].clients = 0]

\* stopForBoat(boatId): stop the mapped instance, delete the map entry
KeepInst(ins, map, b) == ins

StopForBoatInst(ins, map, b) == StopInst(ins, map[b])

DropAll(map, b) == [o \in DOMAIN map |-> 0]

StopForBoatMap(map, b) == [map EXCEPT ![b] = 0]

\* new NMEAListener / AT4Listener / SignalKService followed by start().
\* The TCP listeners are listening as soon as start() returns; the SignalK
\* service is inside its own async start() until connect resolves.
\* out is what start() runs into: "ok"; "bind", the server emits 'error'
\* (the handler logs it, the listener stays constructed but is not
\* listening); "throw", start() throws into startForBoat's catch block.
\* clean records whether every earlier instance of the vessel had been
\* stopped when this one was constructed.
NewInst(k, b, p, out, clean) ==
    [boat |-> b, port |-> p, clients |-> 0, clean |-> clean,
     st |-> IF out = "throw" THEN "threw"
            ELSE IF k = "signalk" THEN "starting"
            ELSE IF out = "bind" THEN "failed"
            ELSE "running"]

\* what start() can run into, per manager class
Outcomes(k) == IF k = "signalk" THEN {"ok"} ELSE {"ok", "bind", "throw"}

\* no instance of vessel b still holds a server, a socket or a connection
AllReleased(ins, b) ==
    \A i \in 1..Len(ins) : ins[i].boat = b => ins[i].st \in {"stopped", "threw"}

\* an instance is active once start() has completed and until stop()
Active(i) == inst[i].st = "running"

ActiveFor(b) == {i \in 1..Len(inst) : inst[i].boat = b /\ Active(i)}

NewCall(op, b, p, pc, i, todo) ==
    [op |-> op, boat |-> b, port |-> p, pc |-> pc, inst |-> i, todo |-> todo]

\* documents <<boatId, port>> selected by startAll's Boat.find, in
\* collection order
RECURSIVE ConfiguredFrom(_, _)
ConfiguredFrom(c, b) ==
    IF b > MaxBoat THEN <<>>
    ELSE (IF c[b] \in Ports THEN << <<b, c[b]>> >> ELSE <<>>)
             \o ConfiguredFrom(c, b + 1)

Configured(c) == ConfiguredFrom(c, 1)

----------------------------------------------------------------------------
(* Sockets of the listener model; the parts of the state a specification   *)
(* does not use keep their constructor values.                             *)

MaxSock == 1      \* concurrent connections on the listener
MaxRegistered == 1        \* vessels with a Boat document (ids 1..MaxRegistered)

Socks == 1..MaxSock
NoBoat == 0       \* boatId null
RegisteredBoats == 1..MaxRegistered
GhostBoat == MaxRegistered + 1   \* a boatId no Boat document carries

\* the maritime identity codes seen on the wire: MmsiOf(b) is the mmsi field
\* of vessel b, the last code belongs to no Boat document
MMSIs == 1..(MaxRegistered + 1)
NoMMSI == 0       \* no mmsi in the packet / context
MmsiOf(b) == b

IdleSessions ==
    /\ assigned = NoBoat
    /\ clients = [s \in Socks |-> [imei |-> <<>>, boatId |-> NoBoat, buffer |-> <<>>]]
    /\ stream = [s \in Socks |-> <<>>]
    /\ sent = [s \in Socks |-> 0]
    /\ handed = [s \in Socks |-> <<>>]
    /\ elog = [s \in Socks |-> <<>>]
    /\ tasks = <<>>
    /\ split = [s \in Socks |-> FALSE]
    /\ boatImei = [b \in RegisteredBoats |-> <<>>]
    /\ stateByMMSI = [m \in MMSIs |-> [known |-> FALSE, hasPos |-> FALSE, lat |-> 0, lon |-> 0]]
    /\ boatsByMMSI = {}

IdleListener ==
    /\ proto = "none" /\ parser = "strict" /\ lsnr = "assigned"
    /\ IdleSessions

IdleManager ==
    /\ kind = "none" /\ cfg = [b \in Boats |-> NoPort] /\ inst = <<>>
    /\ listeners = [b \in Boats |-> 0] /\ calls = <<>>

\* the constructor: this.server = null, no socket accepted
IdleServer == server = "null" /\ sockets = <<>>

\* every vessel of the runs has a Boat document with its identity code
IdleRegistry == registry = {MmsiOf(b) : b \in RegisteredBoats}

\* no browser client in the run
IdleBrowser ==
    /\ client = "none" /\ conns = <<>> /\ wsock = 0 /\ enabled = FALSE
    /\ timers = <<>> /\ reconnectTimer = 0 /\ attempts = 0 /\ connected = FALSE

IdleDecoder ==
    /\ fn = "none" /\ input = <<>> /\ lineNo = 0
    /\ currentState = <<>> /\ positions = <<>> /\ errors = <<>>
    /\ result = [type |-> "none"]

----------------------------------------------------------------------------
(* Manager actions *)

InitMgr ==
    /\ IdleRegistry
    /\ IdleBrowser
    /\ IdleServer
    /\ kind \in Kinds
    /\ cfg = [b \in Boats |-> 1]
    /\ inst = <<>>
    /\ listeners = [b \in Boats |-> 0]
    /\ calls = <<>>
    /\ IdleListener
    /\ IdleDecoder

\* The synchronous body of startForBoat: stop the existing listener, build
\* and start a new one.  For the TCP managers the map entry is set in the
\* same turn; the SignalK manager suspends on `await service.start()` first.
AfterStartAbort(callRec, out) ==
    IF kind = "signalk" THEN "await_start"
    ELSE IF callRec.op = "startAll" /\ out # "throw" THEN "loop"
    ELSE "done"

\* where the caller of startForBoat goes on: startForBoat catches what
\* start() throws and returns normally, so startAll continues its loop
AfterStart(callRec, out) ==
    IF kind = "signalk" THEN "await_start"
    ELSE IF callRec.op = "startAll" THEN "loop"
    ELSE "done"

StartBody(b, p, callRec, isNew, c, out) ==
    /\ Len(inst) < MaxInst
    /\ inst' = LET stopped == StopForBoatInst(inst, listeners, b)
               IN  Append(stopped, NewInst(kind, b, p, out, AllReleased(stopped, b)))
    /\ LET id == Len(inst) + 1
           rec == [callRec EXCEPT !.port = p, !.inst = id,
                                  !.pc = AfterStart(callRec, out)]
       IN  /\ listeners' = IF kind = "signalk" \/ out = "throw"
                           THEN StopForBoatMap(listeners, b)
                           ELSE [listeners EXCEPT ![b] = id]
           /\ calls' = IF isNew THEN Append(calls, rec)
                       ELSE [calls EXCEPT ![c] = rec]

\* startForBoat(boatId, port, mmsi) called from the API (boat created)
StartForBoat(b, p) ==
    /\ Len(calls) < MaxCalls
    /\ \E out \in Outcomes(kind) :
           StartBody(b, p, NewCall("start", b, p, "new", 0, <<>>), TRUE, 0, out)
    /\ UNCHANGED <<kind, cfg>>
    /\ UNCHANGED <<lsnVars, decVars, srvVars, dbVars, webVars>>

\* SignalKService.start() settles: client.connect resolves and the service
\* subscribes.  A stop() that came while start() was suspended found
\* this.client unset or not yet connected and does not prevent it.
ServiceStarted(c) ==
    /\ c \in 1..Len(calls)
    /\ calls[c].pc = "await_start"
    /\ inst' = [inst EXCEPT ![calls[c].inst].st = "running"]
    /\ calls' = [calls EXCEPT ![c].pc = "set"]
    /\ UNCHANGED <<kind, cfg, listeners>>
    /\ UNCHANGED <<lsnVars, decVars, srvVars, dbVars, webVars>>

\* SignalKService.start() settles the other way: loadBoats or connect
\* failed, start() caught the error and left connected = false.
ServiceFailed(c) ==
    /\ c \in 1..Len(calls)
    /\ calls[c].pc = "await_start"
    /\ inst' = [inst EXCEPT ![calls[c].inst].st = "failed"]
    /\ calls' = [calls EXCEPT ![c].pc = "set"]
    /\ UNCHANGED <<kind, cfg, listeners>>
    /\ UNCHANGED <<lsnVars, decVars, srvVars, dbVars, webVars>>

\* a device connects to a listening server: clients.add(socket)
ClientConnect(i) ==
    /\ i \in 1..Len(inst)
    /\ kind # "signalk"
    /\ inst[i].st = "running"
    /\ inst[i].clients < MaxClients
    /\ inst' = [inst EXCEPT ![i].clients = @ + 1]
    /\ UNCHANGED <<kind, cfg, listeners, calls>>
    /\ UNCHANGED <<lsnVars, decVars, srvVars, dbVars, webVars>>

\* startForBoat resumes after `await service.start()`: services.set(...)
StartFinish(c) ==
    /\ c \in 1..Len(calls)
    /\ calls[c].pc = "set"
    /\ listeners' = [listeners EXCEPT ![calls[c].boat] = calls[c].inst]
    /\ calls' = [calls EXCEPT ![c].pc =
                    IF calls[c].op = "startAll" THEN "loop" ELSE "done"]
    /\ UNCHANGED <<kind, cfg, inst>>
    /\ UNCHANGED <<lsnVars, decVars, srvVars, dbVars, webVars>>

\* stopForBoat(boatId)
StopForBoat(b) ==
    /\ inst' = StopForBoatInst(inst, listeners, b)
    /\ listeners' = StopForBoatMap(listeners, b)
    /\ UNCHANGED <<kind, cfg, calls>>
    /\ UNCHANGED <<lsnVars, decVars, srvVars, dbVars, webVars>>

\* stopAll(): stop every mapped instance, clear the map
StopAll ==
    /\ inst' = [i \in 1..Len(inst) |->
                   IF \E b \in Boats : listeners[b] = i
                   THEN [inst[i] EXCEPT !.st = "stopped", !.clients = 0]
                   ELSE inst[i]]
    /\ listeners' = [b \in Boats |-> 0]
    /\ UNCHANGED <<kind, cfg, calls>>
    /\ UNCHANGED <<lsnVars, decVars, srvVars, dbVars, webVars>>

\* restartForBoat(boatId) up to `await Boat.findOne`
RestartForBoat(b) ==
    /\ Len(calls) < MaxCalls
    /\ calls' = Append(calls, NewCall("restart", b, NoPort, "find", 0, <<>>))
    /\ UNCHANGED <<kind, cfg, inst, listeners>>
    /\ UNCHANGED <<lsnVars, decVars, srvVars, dbVars, webVars>>

\* the database answers the findOne with the document as it is now
RestartFound(c) ==
    /\ c \in 1..Len(calls)
    /\ calls[c].op = "restart" /\ calls[c].pc = "find"
    /\ calls' = [calls EXCEPT ![c].port = cfg[calls[c].boat], ![c].pc = "resume"]
    /\ UNCHANGED <<kind, cfg, inst, listeners>>
    /\ UNCHANGED <<lsnVars, decVars, srvVars, dbVars, webVars>>

\* restartForBoat resumes with the document it read
RestartResume(c) ==
    /\ c \in 1..Len(calls)
    /\ calls[c].op = "restart" /\ calls[c].pc = "resume"
    /\ IF calls[c].port \in Ports
       THEN \E out \in Outcomes(kind) :
                StartBody(calls[c].boat, calls[c].port, calls[c], FALSE, c, out)
       ELSE /\ inst' = StopForBoatInst(inst, listeners, calls[c].boat)
            /\ listeners' = StopForBoatMap(listeners, calls[c].boat)
            /\ calls' = [calls EXCEPT ![c].pc = "done"]
    /\ UNCHANGED <<kind, cfg>>
    /\ UNCHANGED <<lsnVars, decVars, srvVars, dbVars, webVars>>

\* startAll() up to `await Boat.find`
StartAll ==
    /\ Len(calls) < MaxCalls
    /\ calls' = Append(calls, NewCall("startAll", 0, NoPort, "find", 0, <<>>))
    /\ UNCHANGED <<kind, cfg, inst, listeners>>
    /\ UNCHANGED <<lsnVars, decVars, srvVars, dbVars, webVars>>

StartAllFound(c) ==
    /\ c \in 1..Len(calls)
    /\ calls[c].op = "startAll" /\ calls[c].pc = "find"
    /\ calls' = [calls EXCEPT ![c].todo = Configured(cfg), ![c].pc = "loop"]
    /\ UNCHANGED <<kind, cfg, inst, listeners>>
    /\ UNCHANGED <<lsnVars, decVars, srvVars, dbVars, webVars>>

\* one iteration of `for (const boat of boats) await this.startForBoat(...)`
StartAllStep(c) ==
    /\ c \in 1..Len(calls)
    /\ calls[c].op = "startAll" /\ calls[c].pc = "loop"
    /\ IF calls[c].todo = <<>>
       THEN /\ calls' = [calls EXCEPT ![c].pc = "done"]
            /\ UNCHANGED <<inst, listeners>>
       ELSE LET doc == Head(calls[c].todo)
            IN  \E out \in Outcomes(kind) :
                    StartBody(doc[1], doc[2],
                              [calls[c] EXCEPT !.boat = doc[1],
                                               !.todo = Tail(calls[c].todo)],
                              FALSE, c, out)
    /\ UNCHANGED <<kind, cfg>>
    /\ UNCHANGED <<lsnVars, decVars, srvVars, dbVars, webVars>>

\* PUT /boats/:boatId: the admin changes or clears the assignment
EditCfg(b, p) ==
    /\ cfg[b] # p
    /\ cfg' = [cfg EXCEPT ![b] = p]
    /\ UNCHANGED <<kind, inst, listeners, calls>>
    /\ UNCHANGED <<lsnVars, decVars, srvVars, dbVars, webVars>>

NextMgr ==
    \/ \E b \in Boats, p \in Ports : StartForBoat(b, p)
    \/ \E c \in 1..MaxCalls : ServiceStarted(c)
    \/ \E c \in 1..MaxCalls : ServiceFailed(c)
    \/ \E i \in 1..MaxInst : ClientConnect(i)
    \/ \E c \in 1..MaxCalls : StartFinish(c)
    \/ \E b \in Boats : StopForBoat(b)
    \/ StopAll
    \/ \E b \in Boats : RestartForBoat(b)
    \/ \E c \in 1..MaxCalls : RestartFound(c)
    \/ \E c \in 1..MaxCalls : RestartResume(c)
    \/ StartAll
    \/ \E c \in 1..MaxCalls : StartAllFound(c)
    \/ \E c \in 1..MaxCalls : StartAllStep(c)
    \/ \E b \in 1..MaxEditBoat, p \in Ports \cup {NoPort, Absent} : EditCfg(b, p)

SpecMgr == InitMgr /\ [][NextMgr]_vars

\* getStatus(): one entry per map entry
getStatus ==
    {[boatId |-> b, port |-> inst[listeners[b]].port,
      running |-> inst[listeners[b]].st = "running",
      clients |-> inst[listeners[b]].clients] : b \in {x \in Boats : listeners[x] # 0}}

----------------------------------------------------------------------------
(* C1: across any interleaving of startAll, startForVessel, stopForVessel, *)
(* restartForVessel and stopAll calls on one manager, every vessel has at  *)
(* most one active (started, not yet stopped) listener at every moment,    *)
(* for the NMEA, AT4 and SignalK managers.                                 *)
C1_AtMostOneActive ==
    \A b \in Boats : Cardinality(ActiveFor(b)) <= 1

----------------------------------------------------------------------------
(* AT4 protocol parser (utils/at4): bytes are 0..255, a Buffer is a        *)
(* sequence of bytes; JS index i is TLA+ index i + 1.                      *)

Null == [type |-> "null"]

START_BIT == 120          \* 0x78
STOP_CR == 13             \* 0x0D
STOP_LF == 10             \* 0x0A
LOGIN == 1                \* AT4_PROTOCOL.LOGIN
LOCATION == 34            \* AT4_PROTOCOL.LOCATION 0x22
HEARTBEAT == 35           \* AT4_PROTOCOL.HEARTBEAT 0x23
CRC_INIT == 65535         \* 0xFFFF
CRC_POLY == 4129          \* 0x1021
WORD == 65536             \* 16-bit mask + 1

RECURSIVE BitXor(_, _)
BitXor(a, b) ==
    IF a = 0 THEN b
    ELSE IF b = 0 THEN a
    ELSE ((a + b) % 2) + 2 * BitXor(a \div 2, b \div 2)

\* CRC-ITU lookup table
CRC_TABLE == <<
    0, 4489, 8978, 12955, 17956, 22445, 25910, 29887,
    35912, 40385, 44890, 48851, 51820, 56293, 59774, 63735,
    4225, 264, 13203, 8730, 22181, 18220, 30135, 25662,
    40137, 36160, 49115, 44626, 56045, 52068, 63999, 59510,
    8450, 12427, 528, 5017, 26406, 30383, 17460, 21949,
    44362, 48323, 36440, 40913, 60270, 64231, 51324, 55797,
    12675, 8202, 4753, 792, 30631, 26158, 21685, 17724,
    48587, 44098, 40665, 36688, 64495, 60006, 55549, 51572,
    16900, 21389, 24854, 28831, 1056, 5545, 10034, 14011,
    52812, 57285, 60766, 64727, 34920, 39393, 43898, 47859,
    21125, 17164, 29079, 24606, 5281, 1320, 14259, 9786,
    57037, 53060, 64991, 60502, 39145, 35168, 48123, 43634,
    25350, 29327, 16404, 20893, 9506, 13483, 1584, 6073,
    61262, 65223, 52316, 56789, 43370, 47331, 35448, 39921,
    29575, 25102, 20629, 16668, 13731, 9258, 5809, 1848,
    65487, 60998, 56541, 52564, 47595, 43106, 39673, 35696,
    33800, 38273, 42778, 46739, 49708, 54181, 57662, 61623,
    2112, 6601, 11090, 15067, 20068, 24557, 28022, 31999,
    38025, 34048, 47003, 42514, 53933, 49956, 61887, 57398,
    6337, 2376, 15315, 10842, 24293, 20332, 32247, 27774,
    42250, 46211, 34328, 38801, 58158, 62119, 49212, 53685,
    10562, 14539, 2640, 7129, 28518, 32495, 19572, 24061,
    46475, 41986, 38553, 34576, 62383, 57894, 53437, 49460,
    14787, 10314, 6865, 2904, 32743, 28270, 23797, 19836,
    50700, 55173, 58654, 62615, 32808, 37281, 41786, 45747,
    19012, 23501, 26966, 30943, 3168, 7657, 12146, 16123,
    54925, 50948, 62879, 58390, 37033, 33056, 46011, 41522,
    23237, 19276, 31191, 26718, 7393, 3432, 16371, 11898,
    59150, 63111, 50204, 54677, 41258, 45219, 33336, 37809,
    27462, 31439, 18516, 23005, 11618, 15595, 3696, 8185,
    63375, 58886, 54429, 50452, 45483, 40994, 37561, 33584,
    31687, 27214, 22741, 18780, 15843, 11370, 7921, 3960 >>

\* calculateCRC16, table driven: bytes buf[from+1 .. to] (JS [from, to)).
\* crc is never negative; the test on it in the loops below only makes the
\* value be computed at every step instead of being carried unevaluated.
RECURSIVE CrcTableLoop(_, _, _, _)
CrcTableLoop(buf, i, to, crc) ==
    IF i >= to \/ crc < 0 THEN crc
    ELSE CrcTableLoop(buf, i + 1, to,
           BitXor(crc \div 256, CRC_TABLE[(BitXor(crc, buf[i + 1]) % 256) + 1]) % WORD)

CalcCrcTable(buf, from, to) ==
    (WORD - 1) - CrcTableLoop(buf, from, to, CRC_INIT)

\* calculateCRC16, bit by bit.  The JS value is a 32-bit integer inside the
\* loop, but the code reads only bit 15 (crc & 0x8000) and the low 16 bits
\* (crc & 0xFFFF), and shifts and xors never move a bit downwards: the low
\* 16 bits are kept here.
RECURSIVE CrcBitStep(_, _)
CrcBitStep(crc, j) ==
    IF j = 0 \/ crc < 0 THEN crc
    ELSE CrcBitStep(IF (crc \div 32768) % 2 = 1
                    THEN BitXor((crc * 2) % WORD, CRC_POLY)
                    ELSE (crc * 2) % WORD, j - 1)

RECURSIVE CrcBitLoop(_, _, _, _)
CrcBitLoop(buf, i, to, crc) ==
    IF i >= to \/ crc < 0 THEN crc
    ELSE CrcBitLoop(buf, i + 1, to, CrcBitStep(BitXor(crc, buf[i + 1] * 256), 8))

CalcCrcBitwise(buf, from, to) == CrcBitLoop(buf, from, to, CRC_INIT) % WORD

\* calculateCRC16 of the parser variant pv
calculateCRC16(pv, buf, from, to) ==
    IF pv = "strict" THEN CalcCrcTable(buf, from, to)
    ELSE CalcCrcBitwise(buf, from, to)

\* buffer.readUInt16BE(off)
ReadU16(buf, off) == buf[off + 1] * 256 + buf[off + 2]

\* buffer.readUInt32BE(off)
ReadU32(buf, off) ==
    ((buf[off + 1] * 256 + buf[off + 2]) * 256 + buf[off + 3]) * 256 + buf[off + 4]

\* the comparison made by verifyCRC
CrcMatches(pv, buf) ==
    calculateCRC16(pv, buf, 2, Len(buf) - 4) = ReadU16(buf, Len(buf) - 4)

\* verifyCRC(buffer): the strict variant rejects a mismatch, the lenient
\* variant logs a warning and accepts the packet anyway
verifyCRC(pv, buf) ==
    IF Len(buf) < 7 THEN FALSE
    ELSE IF pv = "strict" THEN CrcMatches(pv, buf)
    ELSE TRUE

\* the IMEI digits: (byte >> 4).toString() + (byte & 0x0F).toString() for
\* each of the 8 bytes, kept as the sequence of the numbers printed
RECURSIVE BcdDigits(_, _, _)
BcdDigits(buf, i, to) ==
    IF i >= to THEN <<>>
    ELSE <<buf[i + 1] \div 16, buf[i + 1] % 16>> \o BcdDigits(buf, i + 1, to)

\* parseLoginPacket
parseLoginPacket(pv, buf) ==
    IF Len(buf) < 22 THEN Null
    ELSE IF buf[1] # START_BIT \/ buf[2] # START_BIT THEN Null
    ELSE IF buf[4] # LOGIN THEN Null
    ELSE IF ~verifyCRC(pv, buf) THEN Null
    ELSE [type |-> "login", imei |-> BcdDigits(buf, 4, 12),
          serial |-> ReadU16(buf, 16)]

\* minimum length of a heartbeat packet: 16 in one parser, 18 in the other
HeartbeatMin(pv) == IF pv = "strict" THEN 16 ELSE 18

\* parseHeartbeatPacket
parseHeartbeatPacket(pv, buf) ==
    IF Len(buf) < HeartbeatMin(pv) THEN Null
    ELSE IF buf[1] # START_BIT \/ buf[2] # START_BIT THEN Null
    ELSE IF buf[4] # HEARTBEAT THEN Null
    ELSE IF ~verifyCRC(pv, buf) THEN Null
    ELSE [type |-> "heartbeat", voltageRaw |-> ReadU16(buf, 5),
          signalStrength |-> buf[8], serial |-> ReadU16(buf, 10)]

\* (courseStatus >> 10) & 0x3F, times 10
CourseOf(courseStatus) == ((courseStatus \div 1024) % 64) * 10

\* (status & 0x0008) !== 0
IsWest(status) == (status \div 8) % 2 = 1

IsNorthBit3(status) == (status \div 8) % 2 = 1

\* (status & 0x0004) !== 0
IsNorth(status) == (status \div 4) % 2 = 1

\* parseLocationPacket.  lat and lon are kept in device units (1/1800000
\* degree) with the hemisphere sign applied; speed is km/h as received.
parseLocationPacket(pv, buf) ==
    IF Len(buf) < 36 THEN Null
    ELSE IF buf[1] # START_BIT \/ buf[2] # START_BIT THEN Null
    ELSE IF buf[4] # LOCATION THEN Null
    ELSE IF ~verifyCRC(pv, buf) THEN Null
    ELSE LET latRaw == ReadU32(buf, 11)
             lonRaw == ReadU32(buf, 15)
             courseStatus == ReadU16(buf, 20)
             status == courseStatus % 1024
             isWest == IsWest(status)
             isNorth == IsNorth(status)
         IN  [type |-> "location",
              lat |-> IF isNorth THEN latRaw ELSE 0 - latRaw,
              lon |-> IF isWest THEN 0 - lonRaw ELSE lonRaw,
              speedKmh |-> buf[20],
              course |-> CourseOf(courseStatus),
              serial |-> ReadU16(buf, 30)]

parsePacketChecked(pv, buf) ==
    IF Len(buf) < 10 THEN Null
    ELSE IF buf[1] # START_BIT \/ buf[2] # START_BIT THEN Null
    ELSE IF buf[4] = LOGIN THEN parseLoginPacket(pv, buf)
    ELSE IF buf[4] = LOCATION THEN parseLocationPacket(pv, buf)
    ELSE IF buf[4] = HEARTBEAT THEN parseHeartbeatPacket(pv, buf)
    ELSE IF ~CrcMatches(pv, buf) THEN Null
    ELSE [type |-> "unknown", protocolNumber |-> buf[4]]

\* parsePacket(buffer): dispatch on the protocol number at index 3
parsePacket(pv, buf) ==
    IF Len(buf) < 10 THEN Null
    ELSE IF buf[1] # START_BIT \/ buf[2] # START_BIT THEN Null
    ELSE IF buf[4] = LOGIN THEN parseLoginPacket(pv, buf)
    ELSE IF buf[4] = LOCATION THEN parseLocationPacket(pv, buf)
    ELSE IF buf[4] = HEARTBEAT THEN parseHeartbeatPacket(pv, buf)
    ELSE [type |-> "unknown", protocolNumber |-> buf[4]]

\* generateLoginResponse / generateLocationResponse /
\* generateHeartbeatResponse: a 10-byte frame, length 5, echoing the serial
ResponseFrame(pv, pn, serial) ==
    LET head == <<START_BIT, START_BIT, 5, pn, serial \div 256, serial % 256>>
        crc == calculateCRC16(pv, head, 2, 6)
    IN  head \o <<crc \div 256, crc % 256, STOP_CR, STOP_LF>>

\* generateResponse(parsedData): <<>> stands for null (nothing to write)
generateResponse(pv, parsed) ==
    IF parsed.type = "login" THEN ResponseFrame(pv, LOGIN, parsed.serial)
    ELSE IF parsed.type = "location" THEN ResponseFrame(pv, LOCATION, parsed.serial)
    ELSE IF parsed.type = "heartbeat" THEN ResponseFrame(pv, HEARTBEAT, parsed.serial)
    ELSE <<>>

----------------------------------------------------------------------------
(* Records, the Boat collection and the Location schema                    *)

LatScale == 1800000       \* device units per degree (latRaw / 1800000.0)
LAT_MAX == 90             \* locationSchema.lat min -90 / max 90
LON_MAX == 180            \* locationSchema.lon min -180 / max 180
COURSE_MAX == 360         \* locationSchema.course max
KNOT_PER_KMH == 539957    \* 0.539957 knots per km/h, in millionths

BoatRef(b) == [src |-> "boat", id |-> b, digits |-> <<>>]
ImeiRef(d) == [src |-> "imei", id |-> 0, digits |-> d]
UnknownRef == [src |-> "unknown", id |-> 0, digits |-> <<>>]
NoRef == [src |-> "none", id |-> 0, digits |-> <<>>]

NoRec == [boatId |-> NoRef, mmsi |-> 0, lat |-> 0, lon |-> 0, course |-> 0,
          speed |-> 0, source |-> "none"]

\* locationSchema.source enum
SourceEnum == {"phone", "tracker", "gpx", "nmea", "signalk", "ais"}

\* a schema without the min / max validators of lat and lon;
\* C10_OutOfRangeNeverStored must not hold for it
LatLonUnchecked(rec) == TRUE

\* the range validators of locationSchema.lat / lon
LatLonInRange(rec) ==
    /\ rec.lat >= 0 - LAT_MAX * LatScale /\ rec.lat <= LAT_MAX * LatScale
    /\ rec.lon >= 0 - LON_MAX * LatScale /\ rec.lon <= LON_MAX * LatScale

\* mongoose validation of a Location document (models/Location)
ValidLocation(rec) ==
    /\ rec.boatId.src # "none"
    /\ LatLonInRange(rec)
    /\ rec.course >= 0 /\ rec.course <= COURSE_MAX
    /\ rec.speed >= 0
    /\ rec.source \in SourceEnum

\* Math.round((speed || 0) * 10) / 10 of a speed given in km/h, in tenths
\* of a knot
SpeedTenths(kmh) == (kmh * KNOT_PER_KMH + 50000) \div 100000

\* the document handleLocation passes to Location.create (assigned-port
\* listener): the boat's identity, the decoded position, source 'at4'
LocationDocAssigned(b, parsed) ==
    [boatId |-> BoatRef(b), mmsi |-> MmsiOf(b), lat |-> parsed.lat, lon |-> parsed.lon,
     course |-> parsed.course, speed |-> SpeedTenths(parsed.speedKmh),
     source |-> "at4"]

\* the same in the listener that accepts any device: boatId is the IMEI
\* learned at login, or 'unknown'
LocationDocLegacy(imei, parsed) ==
    [boatId |-> IF imei = <<>> THEN UnknownRef ELSE ImeiRef(imei),
     mmsi |-> NoMMSI, lat |-> parsed.lat, lon |-> parsed.lon,
     course |-> parsed.course, speed |-> SpeedTenths(parsed.speedKmh),
     source |-> "at4"]

----------------------------------------------------------------------------
(* AT4 listener: frame reassembly and the synchronous part of processPacket *)

MIN_PACKET == 10          \* while (clientData.buffer.length >= 10)
FRAME_OVERHEAD == 5       \* totalLength = length + 5

Ev(e, k, bytes, rec) == [ev |-> e, k |-> k, bytes |-> bytes, rec |-> rec]

Task(op, s, k, pc, b, imei, rec) ==
    [op |-> op, sock |-> s, k |-> k, pc |-> pc, boat |-> b, imei |-> imei,
     rec |-> rec]

\* findStartBits(buffer): JS index of the first 0x78 0x78, or -1
FindStartBits(buf) ==
    LET hits == {i \in 1..(Len(buf) - 1) : buf[i] = START_BIT /\ buf[i + 1] = START_BIT}
    IN  IF hits = {} THEN 0 - 1
        ELSE (CHOOSE i \in hits : \A j \in hits : i <= j) - 1

SliceFromNext(buf, from) == SubSeq(buf, from + 2, Len(buf))

\* buffer.slice(from) / buffer.slice(0, to) with JS indices
SliceFrom(buf, from) == SubSeq(buf, from + 1, Len(buf))
SliceTo(buf, to) == SubSeq(buf, 1, to)

\* a faulty frame size (length + 4) that cuts every frame one byte short;
\* C2_FramesHandedOnce must not hold for it
TotalLengthShort(b1) == b1[3] + FRAME_OVERHEAD - 1

TotalLengthLong(b1) == b1[3] + FRAME_OVERHEAD + 1

TotalLengthBare(b1) == b1[3]

\* const length = buffer[2]; const totalLength = length + 5
TotalLength(b1) == b1[3] + FRAME_OVERHEAD

\* processBuffer: the while loop, returning what is left in the buffer and
\* the packets cut from it, in order
RECURSIVE ProcessBuffer(_, _)
ProcessBuffer(buf, out) ==
    IF Len(buf) < MIN_PACKET THEN [buffer |-> buf, packets |-> out]
    ELSE LET startIndex == FindStartBits(buf)
         IN  IF startIndex = 0 - 1 THEN [buffer |-> <<>>, packets |-> out]
             ELSE LET b1 == IF startIndex > 0 THEN SliceFrom(buf, startIndex) ELSE buf
                  IN  IF Len(b1) < 3 THEN [buffer |-> b1, packets |-> out]
                      ELSE LET totalLength == TotalLength(b1)
                           IN  IF Len(b1) < totalLength
                               THEN [buffer |-> b1, packets |-> out]
                               ELSE ProcessBuffer(SliceFrom(b1, totalLength),
                                        Append(out, SliceTo(b1, totalLength)))

\* sendLocationRequest: a 13-byte buffer, length byte 8, command 0x40, a
\* random serial at 6, the CRC of bytes [2, 8) at 8, stop bits at 11 and 12
LocationRequest(pv, r) ==
    LET head == <<START_BIT, START_BIT, 8, 64, 0, 0, r \div 256, r % 256>>
        crc == calculateCRC16(pv, head, 2, 8)
    IN  head \o <<crc \div 256, crc % 256, 0, STOP_CR, STOP_LF>>

\* a faulty order of effects: the handler calls come before socket.write;
\* C4_AckBeforeDownstream must not hold for it
SyncEventsLate(ack, downstream) == downstream \o ack

\* the order of effects in processPacket: socket.write(response) comes
\* first, the handler calls follow
SyncEvents(ack, downstream) == ack \o downstream

PacketSyncEager(pv, cd, s, pkt, k) ==
    LET parsed == parsePacket(pv, pkt)
        ack == <<Ev("write", k, generateResponse(pv, parsed), NoRec)>>
    IN  IF parsed # Null /\ parsed.type = "login"
        THEN [cd |-> [cd EXCEPT !.imei = parsed.imei],
              ev |-> SyncEvents(ack, <<Ev("findOne", k, <<>>, NoRec)>>),
              tk |-> <<Task("imei", s, k, "find", 1, parsed.imei, NoRec)>>]
        ELSE [cd |-> cd, ev |-> <<>>, tk |-> <<>>]

\* processPacket up to its first await, for the listener with a boat
\* assigned to the port: ack, bind the IMEI, start the IMEI update or the
\* boat lookup
PacketSyncAssigned(pv, cd, s, pkt, k) ==
    LET parsed == parsePacket(pv, pkt)
        resp == generateResponse(pv, parsed)
        ack == IF resp = <<>> THEN <<>> ELSE <<Ev("write", k, resp, NoRec)>>
    IN  IF parsed = Null THEN [cd |-> cd, ev |-> <<>>, tk |-> <<>>]
        ELSE IF parsed.type = "login"
        THEN [cd |-> [cd EXCEPT !.imei = parsed.imei],
              ev |-> SyncEvents(ack, IF cd.boatId # NoBoat
                                     THEN <<Ev("findOne", k, <<>>, NoRec)>> ELSE <<>>),
              tk |-> IF cd.boatId # NoBoat
                     THEN <<Task("imei", s, k, "find", cd.boatId, parsed.imei, NoRec)>>
                     ELSE <<>>]
        ELSE IF parsed.type = "location" /\ cd.boatId # NoBoat
        THEN [cd |-> cd,
              ev |-> SyncEvents(ack, <<Ev("findOne", k, <<>>, NoRec)>>),
              tk |-> <<Task("loc", s, k, "find", cd.boatId, cd.imei,
                            LocationDocAssigned(cd.boatId, parsed))>>]
        ELSE [cd |-> cd, ev |-> ack, tk |-> <<>>]

\* processPacket up to its first await, for the listener that accepts any
\* device: ack, bind the IMEI and request locations, or create the record
PacketSyncLegacy(pv, cd, s, pkt, k, r) ==
    LET parsed == parsePacket(pv, pkt)
        resp == generateResponse(pv, parsed)
        ack == IF resp = <<>> THEN <<>> ELSE <<Ev("write", k, resp, NoRec)>>
    IN  IF parsed = Null THEN [cd |-> cd, ev |-> <<>>, tk |-> <<>>]
        ELSE IF parsed.type = "login"
        THEN [cd |-> [cd EXCEPT !.imei = parsed.imei],
              ev |-> SyncEvents(ack, <<Ev("command", k, LocationRequest(pv, r), NoRec)>>),
              tk |-> <<>>]
        ELSE IF parsed.type = "location"
        THEN LET doc == LocationDocLegacy(cd.imei, parsed)
             IN  [cd |-> cd,
                  ev |-> SyncEvents(ack, <<Ev("create", k, <<>>, doc)>>),
                  tk |-> <<Task("loc", s, k, "create", NoBoat, cd.imei, doc)>>]
        ELSE [cd |-> cd, ev |-> ack, tk |-> <<>>]

processPacketFatal(pv, lv, cd, s, pkt, k, r) ==
    IF parsePacket(pv, pkt) = Null
    THEN [cd |-> [cd EXCEPT !.imei = <<>>], ev |-> <<>>, tk |-> <<>>]
    ELSE IF lv = "assigned" THEN PacketSyncAssigned(pv, cd, s, pkt, k)
    ELSE PacketSyncLegacy(pv, cd, s, pkt, k, r)

\* processPacket up to its first await, in either listener
processPacket(pv, lv, cd, s, pkt, k, r) ==
    IF lv = "assigned" THEN PacketSyncAssigned(pv, cd, s, pkt, k)
    ELSE PacketSyncLegacy(pv, cd, s, pkt, k, r)

\* the calls processBuffer makes to processPacket, one per packet cut
RECURSIVE RunPackets(_, _, _, _, _, _, _, _)
RunPackets(pv, lv, s, pkts, k, r, cd, acc) ==
    IF pkts = <<>> THEN [cd |-> cd, ev |-> acc.ev, tk |-> acc.tk]
    ELSE LET one == processPacket(pv, lv, cd, s, Head(pkts), k, r)
         IN  RunPackets(pv, lv, s, Tail(pkts), k + 1, r, one.cd,
                        [ev |-> acc.ev \o one.ev, tk |-> acc.tk \o one.tk])

\* socket.on('data'): handleData appends the chunk, processBuffer cuts the
\* complete packets and processPacket runs for each up to its first await
HandleData(s, data, r) ==
    /\ proto = "at4"
    /\ data # <<>>
    /\ LET cut == ProcessBuffer(clients[s].buffer \o data, <<>>)
           run == RunPackets(parser, lsnr, s, cut.packets, Len(handed[s]) + 1, r,
                             clients[s], [ev |-> <<>>, tk |-> <<>>])
       IN  /\ clients' = [clients EXCEPT ![s] = [run.cd EXCEPT !.buffer = cut.buffer]]
           /\ handed' = [handed EXCEPT ![s] = handed[s] \o cut.packets]
           /\ elog' = [elog EXCEPT ![s] = elog[s] \o run.ev]
           /\ tasks' = tasks \o run.tk
    /\ UNCHANGED <<proto, parser, lsnr, assigned, stream, boatImei, stateByMMSI,
                   boatsByMMSI>>
    /\ UNCHANGED <<mgrVars, decVars, srvVars, dbVars, webVars>>

----------------------------------------------------------------------------
(* Frames a device sends                                                   *)

\* a frame around a body: start bits, length, protocol number, body,
\* serial, CRC (made wrong when good is FALSE), stop bits
MkFrame(pv, pn, body, serial, good) ==
    LET head == <<START_BIT, START_BIT, Len(body) + 5, pn>> \o body
                    \o <<serial \div 256, serial % 256>>
        crc == (calculateCRC16(pv, head, 2, Len(head)) + (IF good THEN 0 ELSE 1)) % WORD
    IN  head \o <<crc \div 256, crc % 256, STOP_CR, STOP_LF>>

ALARM == 39               \* AT4_PROTOCOL.ALARM 0x27, a type parsePacket does not decode

\* the frames of the reassembly runs: a 10-byte frame, a 12-byte frame
\* whose payload is 0x78 0x78, and a 16-byte heartbeat
FramingLib(pv) ==
    { MkFrame(pv, ALARM, <<>>, 1, TRUE),
      MkFrame(pv, ALARM, <<START_BIT, START_BIT>>, 2, TRUE),
      MkFrame(pv, HEARTBEAT, <<192, 1, 34, 4, 0, 1>>, 8, TRUE) }

FramingLibStrict == FramingLib("strict")
FramingLibLenient == FramingLib("lenient")

MaxStreamFrames == 3      \* frames in one stream of a reassembly run

SeqsUpTo(S, n) == UNION {[1..m -> S] : m \in 1..n}

RECURSIVE Flat(_)
Flat(ss) == IF ss = <<>> THEN <<>> ELSE Head(ss) \o Flat(Tail(ss))

\* the bytes of stream[s] not yet delivered
Pending(s) == SubSeq(Flat(stream[s]), sent[s] + 1, Len(Flat(stream[s])))

\* the serial sendLocationRequest draws with Math.random()
RandomSerials == {0, 4660}

\* the peer's TCP stack delivers the next n bytes as one data event
DeliverBytes(s, n) ==
    /\ n \in 1..Len(Pending(s))
    /\ \E r \in RandomSerials : HandleData(s, SubSeq(Pending(s), 1, n), r)
    /\ sent' = [sent EXCEPT ![s] = sent[s] + n]
    /\ split' = [split EXCEPT ![s] = split[s] \/ clients'[s].buffer # <<>>]

InitFrame ==
    /\ IdleRegistry
    /\ IdleBrowser
    /\ IdleServer
    /\ IdleManager
    /\ IdleDecoder
    /\ proto = "at4"
    /\ parser \in {"strict", "lenient"}
    /\ lsnr \in {"assigned", "legacy"}
    /\ assigned = NoBoat
    /\ clients = [s \in Socks |-> [imei |-> <<>>, boatId |-> assigned, buffer |-> <<>>]]
    /\ stream \in [Socks -> SeqsUpTo(IF parser = "strict" THEN FramingLibStrict
                                     ELSE FramingLibLenient, MaxStreamFrames)]
    /\ sent = [s \in Socks |-> 0]
    /\ handed = [s \in Socks |-> <<>>]
    /\ elog = [s \in Socks |-> <<>>]
    /\ tasks = <<>>
    /\ split = [s \in Socks |-> FALSE]
    /\ boatImei = [b \in RegisteredBoats |-> <<>>]
    /\ stateByMMSI = [m \in MMSIs |-> [known |-> FALSE, hasPos |-> FALSE, lat |-> 0, lon |-> 0]]
    /\ boatsByMMSI = {}

MaxChunk == 16            \* largest data event of a reassembly run

NextFrame == \E s \in Socks, n \in 1..MaxChunk : DeliverBytes(s, n)

SpecFrame == InitFrame /\ [][NextFrame]_vars

\* the frames of stream[s] whose last byte has been delivered
RECURSIVE FramesWithin(_, _)
FramesWithin(fs, n) ==
    IF fs = <<>> \/ Len(Head(fs)) > n THEN <<>>
    ELSE <<Head(fs)>> \o FramesWithin(Tail(fs), n - Len(Head(fs)))

(* C2: for a stream that is a concatenation of valid frames, cut into any  *)
(* chunks, processBuffer hands each frame to the decoder exactly once,     *)
(* whole and in stream order (at every moment: exactly the frames whose    *)
(* last byte has arrived), keeps the bytes of the incomplete frame, and    *)
(* the buffer is empty once the last chunk has been processed.             *)
C2_FramesHandedOnce ==
    \A s \in Socks :
        /\ handed[s] = FramesWithin(stream[s], sent[s])
        /\ Flat(handed[s]) \o clients[s].buffer = SubSeq(Flat(stream[s]), 1, sent[s])
        /\ (sent[s] = Len(Flat(stream[s])) => clients[s].buffer = <<>>)

\* a stream of several frames was delivered completely with a chunk boundary
\* inside a frame, and every frame was handed over
C2_Witness ==
    \E s \in Socks :
        /\ Len(stream[s]) >= 2 /\ split[s]
        /\ sent[s] = Len(Flat(stream[s]))
        /\ handed[s] = stream[s]

----------------------------------------------------------------------------
(* Position pipelines: what the peers send                                 *)

MaxIngest == 2            \* frames / sentences / deltas in one stream
MaxBurst == 2             \* whole frames arriving in one data event

\* cell metadata closing a LOCATION body: mcc (2), mnc (1), lac (2), cell (3)
CellInfo == <<1, 4, 1, 0, 9, 0, 0, 7>>

\* body of a LOCATION frame: date/time (6), satellites (1), latitude (4),
\* longitude (4), speed (1), course/status (2; course 90, north, east), tail
LocBody(lat4, tail) ==
    <<24, 1, 2, 3, 4, 5, 12>> \o lat4 \o <<2, 0, 0, 0, 10, 36, 4>> \o tail

\* a LOGIN frame: IMEI in BCD (8), type id (2), time zone (2), serial 0x2A3B
LoginFrame(pv, good) ==
    MkFrame(pv, LOGIN, <<1, 35, 69, 103, 137, 1, 35, 69, 34, 0, 50, 1>>, 10811, good)

\* a LOCATION frame of the minimal layout (36 bytes)
LocFrame(pv, lat4, good) ==
    MkFrame(pv, LOCATION, LocBody(lat4, CellInfo), 7, good)

\* a LOCATION frame whose body goes on after the cell metadata (39 bytes)
LocFrameLong(pv) ==
    MkFrame(pv, LOCATION, LocBody(<<5, 0, 0, 0>>, CellInfo \o <<0, 6, 2>>), 258, TRUE)

\* HEARTBEAT frames: status (1), voltage (2), signal (1), language (2),
\* then the serial (16 bytes), or two more body bytes before it (18 bytes)
HeartbeatFrame(pv) == MkFrame(pv, HEARTBEAT, <<192, 1, 34, 4, 0, 1>>, 8, TRUE)

HeartbeatFrameLong(pv) ==
    MkFrame(pv, HEARTBEAT, <<192, 1, 34, 4, 0, 1, 0, 3>>, 9, TRUE)

IngestLib(pv) ==
    { LoginFrame(pv, TRUE), LoginFrame(pv, FALSE),
      LocFrame(pv, <<5, 0, 0, 0>>, TRUE),      \* 46.6 N 18.6 E
      LocFrame(pv, <<5, 0, 0, 0>>, FALSE),     \* the same with a wrong CRC
      LocFrame(pv, <<10, 0, 0, 0>>, TRUE),     \* 93.2 N
      LocFrameLong(pv),
      HeartbeatFrame(pv), HeartbeatFrameLong(pv),
      MkFrame(pv, ALARM, <<>>, 1, TRUE) }

IngestLibStrict == IngestLib("strict")
IngestLibLenient == IngestLib("lenient")

\* positions carried by sentences and deltas, in 1/1800000 degree: one in
\* range, one with lat beyond 90, one with lon beyond 180
WirePositions ==
    { <<54 * LatScale, 18 * LatScale>>,
      <<(LAT_MAX + 1) * LatScale, 18 * LatScale>>,
      <<54 * LatScale, (LON_MAX + 1) * LatScale>> }

\* what parseSentence returns for a line: null, or the packet of the NMEA
\* library with the fields the listener reads
NmeaPacket(id, m, has, lat, lon) ==
    [sentenceId |-> id, mmsi |-> m, hasPos |-> has, lat |-> lat, lon |-> lon]

NmeaLib ==
    {NmeaPacket("null", NoMMSI, FALSE, 0, 0)}
    \cup {NmeaPacket("RMC", m, TRUE, p[1], p[2]) :
              m \in {NoMMSI} \cup MMSIs, p \in WirePositions}
    \cup {NmeaPacket("VTG", m, FALSE, 0, 0) : m \in {NoMMSI} \cup MMSIs}

\* a SignalK delta: the mmsi of its context (NoMMSI: not a vessels.* mmsi
\* context) and the navigation.position of its updates, if any
Delta(m, has, lat, lon) == [mmsi |-> m, hasPos |-> has, lat |-> lat, lon |-> lon]

DeltaLib ==
    {Delta(m, TRUE, p[1], p[2]) : m \in {NoMMSI} \cup MMSIs, p \in WirePositions}
    \cup {Delta(m, FALSE, 0, 0) : m \in {NoMMSI} \cup MMSIs}

StreamLib ==
    IF proto = "nmea" THEN NmeaLib
    ELSE IF proto = "signalk" THEN DeltaLib
    ELSE IF parser = "strict" THEN IngestLibStrict
    ELSE IngestLibLenient

----------------------------------------------------------------------------
(* Position pipelines: the Boat collection                                 *)

RegisteredMMSIs == {MmsiOf(b) : b \in RegisteredBoats}

\* Boat.findOne({ boatId }): the vessel or NoBoat
FindOneByBoatId(b) == IF b \in RegisteredBoats THEN b ELSE NoBoat

\* a faulty lookup that answers every code with the first vessel;
\* C7_UnregisteredNeverReachesSinks must not hold for it
FindOneByMMSIAny(m) == CHOOSE b \in RegisteredBoats : TRUE

\* Boat.findOne({ mmsi }): the vessel or NoBoat
FindOneByMMSI(m) ==
    IF \E b \in RegisteredBoats : MmsiOf(b) = m
    THEN CHOOSE b \in RegisteredBoats : MmsiOf(b) = m
    ELSE NoBoat

\* Location.create settles: the document is stored when the database is up
\* and the document passes the schema validation
CreateOutcome(rec, dbUp) ==
    IF ~dbUp THEN "dbfail"
    ELSE IF ~ValidLocation(rec) THEN "invalid"
    ELSE "stored"

\* the document of NMEAListener.savePosition / SignalKService.savePosition
LocationDocMMSI(b, lat, lon, src) ==
    [boatId |-> BoatRef(b), mmsi |-> MmsiOf(b), lat |-> lat, lon |-> lon,
     course |-> 0, speed |-> 0, source |-> src]

\* the position object extractPosition returns, before the vessel lookup
PositionOf(m, lat, lon) ==
    [boatId |-> NoRef, mmsi |-> m, lat |-> lat, lon |-> lon, course |-> 0,
     speed |-> 0, source |-> "nmea"]

----------------------------------------------------------------------------
(* Position pipelines: actions                                             *)

InitIngest ==
    /\ IdleRegistry
    /\ IdleBrowser
    /\ IdleServer
    /\ IdleManager
    /\ IdleDecoder
    /\ proto \in {"at4", "nmea", "signalk"}
    /\ parser \in (IF proto = "at4" THEN {"strict", "lenient"} ELSE {"strict"})
    /\ lsnr \in (IF proto = "at4" THEN {"assigned", "legacy"} ELSE {"assigned"})
    /\ assigned \in (IF proto = "at4" /\ lsnr = "assigned"
                     THEN {NoBoat} \cup (1..GhostBoat) ELSE {NoBoat})
    /\ clients = [s \in Socks |-> [imei |-> <<>>, boatId |-> assigned, buffer |-> <<>>]]
    /\ stream \in [Socks -> SeqsUpTo(StreamLib, MaxIngest)]
    /\ sent = [s \in Socks |-> 0]
    /\ handed = [s \in Socks |-> <<>>]
    /\ elog = [s \in Socks |-> <<>>]
    /\ tasks = <<>>
    /\ split = [s \in Socks |-> FALSE]
    /\ boatImei = [b \in RegisteredBoats |-> <<>>]
    /\ stateByMMSI = [m \in MMSIs |-> [known |-> FALSE, hasPos |-> FALSE, lat |-> 0, lon |-> 0]]
    /\ boatsByMMSI = {}

\* the next m whole frames of the stream arrive in one data event
DeliverFrames(s, m) ==
    LET nf == Len(handed[s])
    IN  /\ proto = "at4"
        /\ nf + m <= Len(stream[s])
        /\ LET data == Flat(SubSeq(stream[s], nf + 1, nf + m))
           IN  /\ \E r \in RandomSerials : HandleData(s, data, r)
               /\ sent' = [sent EXCEPT ![s] = sent[s] + Len(data)]
        /\ UNCHANGED split

SetPc(i, pc) == [tasks EXCEPT ![i].pc = pc]

\* handleLocation resumes after `await Boat.findOne({ boatId })`: drop the
\* position when there is no such boat, else call Location.create
LocFound(i) ==
    /\ i \in 1..Len(tasks)
    /\ tasks[i].op = "loc" /\ tasks[i].pc = "find"
    /\ IF FindOneByBoatId(tasks[i].boat) = NoBoat
       THEN /\ tasks' = SetPc(i, "done")
            /\ UNCHANGED elog
       ELSE /\ tasks' = SetPc(i, "create")
            /\ elog' = [elog EXCEPT ![tasks[i].sock] =
                           Append(@, Ev("create", tasks[i].k, <<>>, tasks[i].rec))]
    /\ UNCHANGED <<proto, parser, lsnr, assigned, clients, stream, sent, handed,
                   split, boatImei, stateByMMSI, boatsByMMSI>>
    /\ UNCHANGED <<mgrVars, decVars, srvVars, dbVars, webVars>>

\* updateBoatImei resumes after `await Boat.findOne({ boatId })`
ImeiFound(i) ==
    /\ i \in 1..Len(tasks)
    /\ tasks[i].op = "imei" /\ tasks[i].pc = "find"
    /\ tasks' = SetPc(i, IF FindOneByBoatId(tasks[i].boat) = NoBoat THEN "done" ELSE "save")
    /\ UNCHANGED <<proto, parser, lsnr, assigned, clients, stream, sent, handed,
                   elog, split, boatImei, stateByMMSI, boatsByMMSI>>
    /\ UNCHANGED <<mgrVars, decVars, srvVars, dbVars, webVars>>

\* boat.save() settles; processPacket then falls through its switch
ImeiSaved(i, dbUp) ==
    /\ i \in 1..Len(tasks)
    /\ tasks[i].op = "imei" /\ tasks[i].pc = "save"
    /\ tasks' = SetPc(i, "done")
    /\ boatImei' = IF dbUp THEN [boatImei EXCEPT ![tasks[i].boat] = tasks[i].imei]
                   ELSE boatImei
    /\ UNCHANGED <<proto, parser, lsnr, assigned, clients, stream, sent, handed,
                   elog, split, stateByMMSI, boatsByMMSI>>
    /\ UNCHANGED <<mgrVars, decVars, srvVars, dbVars, webVars>>

\* `await Location.create` settles in handleLocation / savePosition: on
\* success the broadcast follows in the same try block, on failure the
\* catch block logs
CreateSettled(i, dbUp) ==
    /\ i \in 1..Len(tasks)
    /\ tasks[i].pc = "create"
    /\ tasks' = SetPc(i, "done")
    /\ LET out == CreateOutcome(tasks[i].rec, dbUp)
           after == IF out = "stored"
                    THEN <<Ev("stored", tasks[i].k, <<>>, tasks[i].rec),
                           Ev("publish", tasks[i].k, <<>>, tasks[i].rec)>>
                    ELSE <<Ev(out, tasks[i].k, <<>>, tasks[i].rec)>>
       IN  elog' = [elog EXCEPT ![tasks[i].sock] = @ \o after]
    /\ UNCHANGED <<proto, parser, lsnr, assigned, clients, stream, sent, handed,
                   split, boatImei, stateByMMSI, boatsByMMSI>>
    /\ UNCHANGED <<mgrVars, decVars, srvVars, dbVars, webVars>>

\* extractPosition(packet, state): the state after the switch
ExtractState(pkt, st) ==
    IF pkt.sentenceId \in {"RMC", "GGA", "GLL"} /\ pkt.hasPos
    THEN [st EXCEPT !.hasPos = TRUE, !.lat = pkt.lat, !.lon = pkt.lon]
    ELSE st

\* processSentence(line) up to its first await, for the packet pkt that
\* parseSentence returned: the accumulator of the packet's mmsi (a fresh
\* object when the packet has none), extractPosition, and savePosition up
\* to `await Boat.findOne({ mmsi })`
SentenceStep(s, k, pkt) ==
    LET fresh == [known |-> pkt.mmsi # NoMMSI, hasPos |-> FALSE, lat |-> 0, lon |-> 0]
        st0 == IF pkt.mmsi # NoMMSI /\ stateByMMSI[pkt.mmsi].known
               THEN stateByMMSI[pkt.mmsi] ELSE fresh
        st1 == ExtractState(pkt, st0)
        save == pkt.sentenceId # "null" /\ st1.hasPos /\ pkt.mmsi # NoMMSI
    IN  /\ stateByMMSI' = IF pkt.sentenceId # "null" /\ pkt.mmsi # NoMMSI
                          THEN [stateByMMSI EXCEPT ![pkt.mmsi] = st1]
                          ELSE stateByMMSI
        /\ elog' = IF save
                   THEN [elog EXCEPT ![s] = Append(@, Ev("findOne", k, <<>>, NoRec))]
                   ELSE elog
        /\ tasks' = IF save
                    THEN Append(tasks, Task("nmea", s, k, "find", NoBoat, <<>>,
                                            PositionOf(pkt.mmsi, st1.lat, st1.lon)))
                    ELSE tasks

\* a data event carrying one complete line
ProcessSentence(s) ==
    LET k == sent[s] + 1
    IN  /\ proto = "nmea"
        /\ k <= Len(stream[s])
        /\ sent' = [sent EXCEPT ![s] = k]
        /\ SentenceStep(s, k, stream[s][k])
        /\ UNCHANGED <<proto, parser, lsnr, assigned, clients, stream, handed, split,
                       boatImei, boatsByMMSI>>
        /\ UNCHANGED <<mgrVars, decVars, srvVars, dbVars, webVars>>

\* NMEAListener.savePosition resumes after the lookup by mmsi
NmeaFound(i) ==
    /\ i \in 1..Len(tasks)
    /\ tasks[i].op = "nmea" /\ tasks[i].pc = "find"
    /\ LET b == FindOneByMMSI(tasks[i].rec.mmsi)
           doc == LocationDocMMSI(b, tasks[i].rec.lat, tasks[i].rec.lon, "nmea")
       IN  IF b = NoBoat
           THEN /\ tasks' = SetPc(i, "done")
                /\ UNCHANGED elog
           ELSE /\ tasks' = [tasks EXCEPT ![i].pc = "create", ![i].rec = doc]
                /\ elog' = [elog EXCEPT ![tasks[i].sock] =
                               Append(@, Ev("create", tasks[i].k, <<>>, doc))]
    /\ UNCHANGED <<proto, parser, lsnr, assigned, clients, stream, sent, handed,
                   split, boatImei, stateByMMSI, boatsByMMSI>>
    /\ UNCHANGED <<mgrVars, decVars, srvVars, dbVars, webVars>>

\* SignalKService.loadBoats (from start() or reloadBoats()) settles: the
\* cache is replaced when Boat.find succeeded and left as it was otherwise
CacheClearedFirst(cache, found, ok) == IF ok THEN found ELSE {}

\* loadBoats: this.boatsByMMSI is replaced after `await Boat.find` has
\* answered; when the query throws, the catch block only logs
CacheAfterLoad(cache, found, ok) == IF ok THEN found ELSE cache

CacheLearns(cache, d) == IF d.mmsi = NoMMSI THEN cache ELSE cache \cup {d.mmsi}

\* handleDelta reads this.boatsByMMSI[mmsi] and assigns nothing to the cache
CacheAfterDelta(cache, d) == cache

\* loadBoats() with the query answered at once
LoadBoats(dbUp) ==
    /\ proto = "signalk"
    /\ boatsByMMSI' = CacheAfterLoad(boatsByMMSI, registry, dbUp)
    /\ UNCHANGED <<proto, parser, lsnr, assigned, clients, stream, sent, handed,
                   elog, tasks, split, boatImei, stateByMMSI>>
    /\ UNCHANGED <<mgrVars, decVars, srvVars, dbVars, webVars>>

\* handleDelta(delta) up to its first await: context, cache lookup,
\* extractPositionFromDelta, and savePosition up to `await Location.create`
HandleDelta(s) ==
    LET k == sent[s] + 1
    IN  /\ proto = "signalk"
        /\ k <= Len(stream[s])
        /\ sent' = [sent EXCEPT ![s] = k]
        /\ LET d == stream[s][k]
               save == d.mmsi # NoMMSI /\ d.mmsi \in boatsByMMSI /\ d.hasPos
               doc == LocationDocMMSI(FindOneByMMSI(d.mmsi), d.lat, d.lon, "signalk")
           IN  /\ elog' = IF save
                          THEN [elog EXCEPT ![s] = Append(@, Ev("create", k, <<>>, doc))]
                          ELSE elog
               /\ tasks' = IF save
                           THEN Append(tasks, Task("signalk", s, k, "create", NoBoat, <<>>, doc))
                           ELSE tasks
        /\ boatsByMMSI' = CacheAfterDelta(boatsByMMSI, stream[s][k])
        /\ UNCHANGED <<proto, parser, lsnr, assigned, clients, stream, handed, split,
                       boatImei, stateByMMSI>>
        /\ UNCHANGED <<mgrVars, decVars, srvVars, dbVars, webVars>>

NextIngest ==
    \/ \E s \in Socks, m \in 1..MaxBurst : DeliverFrames(s, m)
    \/ \E i \in 1..(MaxIngest * MaxSock) : LocFound(i)
    \/ \E i \in 1..(MaxIngest * MaxSock) : ImeiFound(i)
    \/ \E i \in 1..(MaxIngest * MaxSock), dbUp \in BOOLEAN : ImeiSaved(i, dbUp)
    \/ \E i \in 1..(MaxIngest * MaxSock), dbUp \in BOOLEAN : CreateSettled(i, dbUp)
    \/ \E s \in Socks : ProcessSentence(s)
    \/ \E i \in 1..(MaxIngest * MaxSock) : NmeaFound(i)
    \/ \E dbUp \in BOOLEAN : LoadBoats(dbUp)
    \/ \E s \in Socks : HandleDelta(s)

SpecIngest == InitIngest /\ [][NextIngest]_vars

----------------------------------------------------------------------------
(* Properties of the position pipelines                                    *)

\* positions of elog[s] holding an event of kind e about frame k
EventsOf(s, e, k) == {j \in 1..Len(elog[s]) : elog[s][j].ev = e /\ elog[s][j].k = k}

\* the packet was accepted as LOGIN, LOCATION or HEARTBEAT
Accepted(pv, f) == parsePacket(pv, f).type \in {"login", "location", "heartbeat"}

\* the serial number of a frame: the two bytes in front of its CRC
WireSerial(f) == ReadU16(f, Len(f) - 6)

\* a is the acknowledgement matching frame f
AckMatches(pv, f, a) ==
    /\ Len(a) >= MIN_PACKET
    /\ a[1] = START_BIT /\ a[2] = START_BIT
    /\ a[4] = f[4]
    /\ WireSerial(a) = WireSerial(f)
    /\ CrcMatches(pv, a)
    /\ a[Len(a) - 1] = STOP_CR /\ a[Len(a)] = STOP_LF

\* every byte of the stream has arrived and every handler has run to its end
Quiescent ==
    /\ \A s \in Socks :
           IF proto = "at4" THEN sent[s] = Len(Flat(stream[s]))
           ELSE sent[s] = Len(stream[s])
    /\ \A i \in 1..Len(tasks) : tasks[i].pc = "done"

\* lat within [-90, 90] and lon within [-180, 180], in 1/1800000 degree
InRangeDegrees(lat, lon) ==
    /\ lat >= 0 - 90 * LatScale /\ lat <= 90 * LatScale
    /\ lon >= 0 - 180 * LatScale /\ lon <= 180 * LatScale

(* C3: every frame accepted as LOGIN, LOCATION or HEARTBEAT causes exactly  *)
(* one acknowledgement on the same connection, carrying the start marker,  *)
(* the type byte of the accepted frame, the serial number of the accepted  *)
(* frame, a CRC that verifies over the ack's bytes from the length byte to *)
(* the end of the serial, and the stop marker.                             *)
C3_OneMatchingAck ==
    proto = "at4" =>
        \A s \in Socks : \A k \in 1..Len(handed[s]) :
            Accepted(parser, handed[s][k]) =>
                /\ Cardinality(EventsOf(s, "write", k)) = 1
                /\ \A j \in EventsOf(s, "write", k) :
                       AckMatches(parser, handed[s][k], elog[s][j].bytes)

Downstream == {"findOne", "create", "stored", "publish", "invalid", "dbfail"}

(* C4: the acknowledgement of an accepted frame is written before any      *)
(* vessel lookup, persistence or broadcast call for that frame; every      *)
(* accepted frame that has been handed over has its ack, whatever          *)
(* downstream calls of earlier frames are still outstanding; and acks are  *)
(* written in frame order.                                                 *)
C4_AckBeforeDownstream ==
    proto = "at4" =>
        \A s \in Socks :
            /\ \A k \in 1..Len(handed[s]) :
                   Accepted(parser, handed[s][k]) => EventsOf(s, "write", k) # {}
            /\ \A i, j \in 1..Len(elog[s]) :
                   /\ (/\ elog[s][i].ev = "write" /\ elog[s][j].ev \in Downstream
                       /\ elog[s][i].k = elog[s][j].k) => i < j
                   /\ (/\ elog[s][i].ev = "write" /\ elog[s][j].ev = "write"
                       /\ elog[s][i].k < elog[s][j].k) => i < j

\* the lookup started for a LOCATION frame is still outstanding while the
\* next frame on the connection already has its ack
C4_Witness ==
    /\ proto = "at4"
    /\ \E i \in 1..Len(tasks) :
           /\ tasks[i].op = "loc" /\ tasks[i].pc # "done"
           /\ EventsOf(tasks[i].sock, "write", tasks[i].k) # {}
           /\ EventsOf(tasks[i].sock, "write", tasks[i].k + 1) # {}

(* C5: a LOGIN, LOCATION or HEARTBEAT frame whose CRC field differs from   *)
(* the CRC computed over its bytes from the length byte to the end of the  *)
(* serial is a decode failure: parsePacket returns no record, no ack is    *)
(* written, nothing is forwarded for it, and it does not bind the session  *)
(* identity.                                                               *)
C5_CrcMismatchRejected ==
    proto = "at4" =>
        \A s \in Socks :
            /\ \A k \in 1..Len(handed[s]) :
                   (/\ handed[s][k][4] \in {LOGIN, LOCATION, HEARTBEAT}
                    /\ ~CrcMatches(parser, handed[s][k])) =>
                       /\ parsePacket(parser, handed[s][k]) = Null
                       /\ \A j \in 1..Len(elog[s]) : elog[s][j].k # k
            /\ (\A k \in 1..Len(handed[s]) :
                    handed[s][k][4] = LOGIN => ~CrcMatches(parser, handed[s][k]))
                   => clients[s].imei = <<>>

(* C6: on the binary protocol every record handed to the persistence sink  *)
(* or to the broadcast sink carries the id of a registered vessel resolved *)
(* for its session; a LOCATION frame on a session without one is dropped.  *)
C6_OnlyResolvedVessel ==
    proto = "at4" =>
        \A s \in Socks : \A j \in 1..Len(elog[s]) :
            elog[s][j].ev \in {"create", "publish"} =>
                /\ elog[s][j].rec.boatId.src = "boat"
                /\ elog[s][j].rec.boatId.id \in RegisteredBoats
                /\ elog[s][j].rec.boatId.id = clients[s].boatId

(* C7: a position whose maritime identity code matches no registered       *)
(* vessel (lookup in NMEAListener.savePosition, cache lookup in            *)
(* SignalKService.handleDelta) never results in a call to the persistence  *)
(* sink or to the broadcast sink; a record that reaches a sink is the      *)
(* record of the vessel carrying that code.                                *)
C7_UnregisteredNeverReachesSinks ==
    proto \in {"nmea", "signalk"} =>
        \A s \in Socks : \A j \in 1..Len(elog[s]) :
            elog[s][j].ev \in {"create", "stored", "publish"} =>
                LET m == stream[s][elog[s][j].k].mmsi
                IN  /\ m \in RegisteredMMSIs
                    /\ elog[s][j].rec.mmsi = m
                    /\ \E b \in RegisteredBoats :
                           MmsiOf(b) = m /\ elog[s][j].rec.boatId = BoatRef(b)

\* a position of an unregistered code was received, looked up and dropped,
\* next to one of a registered code that was handed to Location.create
C7_Witness ==
    /\ proto = "nmea"
    /\ Quiescent
    /\ \E s \in Socks :
           /\ \E k \in 1..Len(stream[s]) :
                  /\ stream[s][k].hasPos
                  /\ stream[s][k].mmsi \in MMSIs \ RegisteredMMSIs
                  /\ EventsOf(s, "findOne", k) # {}
                  /\ EventsOf(s, "create", k) = {}
           /\ \E k \in 1..Len(stream[s]) : EventsOf(s, "create", k) # {}

\* frame / sentence k of socket s is a valid position candidate received on
\* a connection whose vessel identity resolves to registered vessel b
ValidCandidate(s, k, b) ==
    IF proto = "at4"
    THEN /\ k <= Len(handed[s])
         /\ parsePacket(parser, handed[s][k]).type = "location"
         /\ InRangeDegrees(parsePacket(parser, handed[s][k]).lat,
                           parsePacket(parser, handed[s][k]).lon)
         /\ lsnr = "assigned" /\ assigned = b
    ELSE /\ proto = "nmea"
         /\ k <= sent[s]
         /\ stream[s][k].sentenceId = "RMC" /\ stream[s][k].hasPos
         /\ InRangeDegrees(stream[s][k].lat, stream[s][k].lon)
         /\ stream[s][k].mmsi = MmsiOf(b)

\* no sink failed: the database was up for every create
SinksUp == \A s \in Socks : \A j \in 1..Len(elog[s]) : elog[s][j].ev # "dbfail"

(* C8: every valid position candidate received on a connection whose       *)
(* vessel identity resolves to a registered vessel is handed, as a record  *)
(* for that vessel, to the persistence sink and to the broadcast sink, as  *)
(* long as the sinks do not fail (stated for the moment all handlers have  *)
(* run to their end).                                                      *)
C8_ValidCandidateReachesSinks ==
    (Quiescent /\ SinksUp) =>
        \A s \in Socks : \A k \in 1..MaxIngest : \A b \in RegisteredBoats :
            ValidCandidate(s, k, b) =>
                /\ \E j \in EventsOf(s, "create", k) : elog[s][j].rec.boatId = BoatRef(b)
                /\ \E j \in EventsOf(s, "publish", k) : elog[s][j].rec.boatId = BoatRef(b)

(* C9: create and publish are independent side effects of a normalized     *)
(* record: once the handlers have run to their end, every record handed to *)
(* create has also been handed to publish, whether create succeeded or     *)
(* not, and each sink was called at most once per record.                  *)
C9_SinksIndependent ==
    Quiescent =>
        \A s \in Socks : \A k \in 1..MaxIngest :
            /\ (\E j \in EventsOf(s, "create", k) :
                    InRangeDegrees(elog[s][j].rec.lat, elog[s][j].rec.lon))
                   => EventsOf(s, "publish", k) # {}
            /\ Cardinality(EventsOf(s, "create", k)) <= 1
            /\ Cardinality(EventsOf(s, "publish", k)) <= 1

(* C10: a position with lat outside [-90, 90] or lon outside [-180, 180],  *)
(* from any of the three decoders, is never stored and never broadcast.    *)
C10_OutOfRangeNeverStored ==
    \A s \in Socks : \A j \in 1..Len(elog[s]) :
        elog[s][j].ev \in {"stored", "publish"} =>
            InRangeDegrees(elog[s][j].rec.lat, elog[s][j].rec.lon)

\* an out-of-range position of a registered vessel was handed to
\* Location.create with the database up, and was turned down
C10_Witness ==
    \E s \in Socks : \E j \in 1..Len(elog[s]) :
        /\ elog[s][j].ev = "invalid"
        /\ elog[s][j].rec.source \in SourceEnum
        /\ elog[s][j].rec.boatId.src = "boat"
        /\ ~InRangeDegrees(elog[s][j].rec.lat, elog[s][j].rec.lon)

----------------------------------------------------------------------------
(* NMEA decoding (utils/nmea): parseNMEA over an uploaded text and         *)
(* extractPosition over the sentences of a live connection.  The packets   *)
(* are those of the sentence-parsing library: a field the library did not  *)
(* set is undefined.  Coordinates, speeds and courses are small tokens.    *)

MaxLines == 3

Undefined == 0 - 1        \* a field that is undefined
NullVal == 0 - 2          \* a field that is null

\* A timestamp.  A Date is an object: two Dates are the same for === only
\* if they are the same object (ref); a primitive timestamp has ref 0 and is
\* compared by its value t.
NoDate == [t |-> NullVal, ref |-> 0]
DateObj(t, r) == [t |-> t, ref |-> r]
Truthy(d) == d.t # NullVal /\ d.t # Undefined
StrictNotEqual(d1, d2) == d1.t # d2.t \/ d1.ref # d2.ref

\* the time `new Date()` returns; the sentences carry other times
NowT == 0

\* one line of the text: blank, noise (no $ or ! in front), a sentence the
\* library throws on, or a sentence with its packet.  dt = datetime (RMC),
\* ts = timestamp (GLL), obj = the library hands the time over as a Date
NmeaLine(k, id, lat, lon, spd, crs, hdg, dt, ts, obj) ==
    [k |-> k, id |-> id, latitude |-> lat, longitude |-> lon,
     speedKnots |-> spd, trackTrue |-> crs, heading |-> hdg,
     datetime |-> dt, timestamp |-> ts, obj |-> obj]

Plain(k) ==
    NmeaLine(k, "", Undefined, Undefined, Undefined, Undefined, Undefined,
             Undefined, Undefined, FALSE)

RMC(lat, lon, dt, obj) ==
    NmeaLine("pkt", "RMC", lat, lon, 5, 90, Undefined, dt, Undefined, obj)

LineLib ==
    { Plain("blank"), Plain("noise"), Plain("bad"), Plain("nopkt"),
      RMC(1, 1, 1, TRUE), RMC(1, 1, 1, FALSE), RMC(2, 1, 2, TRUE),
      RMC(Undefined, Undefined, 2, TRUE), RMC(1, Undefined, Undefined, TRUE),
      NmeaLine("pkt", "GGA", 1, 1, Undefined, Undefined, Undefined,
               Undefined, Undefined, FALSE),
      NmeaLine("pkt", "GLL", 2, 2, Undefined, Undefined, Undefined,
               Undefined, 2, TRUE),
      NmeaLine("pkt", "VTG", Undefined, Undefined, 7, 180, Undefined,
               Undefined, Undefined, FALSE),
      NmeaLine("pkt", "HDT", Undefined, Undefined, Undefined, Undefined, 270,
               Undefined, Undefined, FALSE),
      NmeaLine("pkt", "GSV", Undefined, Undefined, Undefined, Undefined,
               Undefined, Undefined, Undefined, FALSE) }

\* nmeaContent.split(/\r?\n/): the lines with their number in the text
Numbered(ls) == [n \in 1..Len(ls) |-> [no |-> n, line |-> ls[n]]]

\* .filter(l => l.trim().length > 0)
NonBlank(nl) == nl.line.k # "blank"

FilterLines(content) == SelectSeq(Numbered(content), NonBlank)

\* the Date the library made when it parsed the n-th line, or the primitive
TimeOf(t, obj, n) ==
    IF t = Undefined THEN NoDate
    ELSE IF obj THEN DateObj(t, 2 * n) ELSE DateObj(t, 0)

\* `new Date()` evaluated while the n-th line is processed
NewDate(n) == DateObj(NowT, 2 * n + 1)

InitialState ==
    [lat |-> NullVal, lon |-> NullVal, timestamp |-> NoDate,
     speed |-> NullVal, course |-> NullVal, mmsi |-> NullVal]

EitherOne(a, b) == a # Undefined \/ b # Undefined

Both(a, b) == a # Undefined /\ b # Undefined

\* the switch on packet.sentenceId in parseNMEA
UpdateState(st, pk, n) ==
    LET pos == Both(pk.latitude, pk.longitude)
        lat == IF pos THEN pk.latitude ELSE st.lat
        lon == IF pos THEN pk.longitude ELSE st.lon
        spd == IF pk.speedKnots # Undefined THEN pk.speedKnots ELSE st.speed
        crs == IF pk.trackTrue # Undefined THEN pk.trackTrue ELSE st.course
    IN  IF pk.id = "RMC"
        THEN [st EXCEPT !.lat = lat, !.lon = lon, !.speed = spd, !.course = crs,
                 !.timestamp = IF pk.datetime # Undefined
                               THEN TimeOf(pk.datetime, pk.obj, n) ELSE @]
        ELSE IF pk.id = "GGA" THEN [st EXCEPT !.lat = lat, !.lon = lon]
        ELSE IF pk.id = "GLL"
        THEN [st EXCEPT !.lat = lat, !.lon = lon,
                 !.timestamp = IF pk.timestamp # Undefined
                               THEN TimeOf(pk.timestamp, pk.obj, n) ELSE @]
        ELSE IF pk.id = "VTG" THEN [st EXCEPT !.speed = spd, !.course = crs]
        ELSE IF pk.id \in {"HDT", "HDG"}
        THEN [st EXCEPT !.course = IF pk.heading # Undefined THEN pk.heading ELSE @]
        ELSE st

\* a ?? 0
OrZero(a) == IF a = NullVal \/ a = Undefined THEN 0 ELSE a

\* the position pushed from the accumulator while line n is processed
PositionFrom(st, n) ==
    [lat |-> st.lat, lon |-> st.lon,
     timestamp |-> IF Truthy(st.timestamp) THEN st.timestamp ELSE NewDate(n),
     speed |-> OrZero(st.speed), course |-> OrZero(st.course), mmsi |-> st.mmsi]

\* isDifferent
IsDifferent(ps, st) ==
    \/ ps = <<>>
    \/ ps[Len(ps)].lat # st.lat
    \/ ps[Len(ps)].lon # st.lon
    \/ (Truthy(st.timestamp) /\ StrictNotEqual(ps[Len(ps)].timestamp, st.timestamp))

\* positions after the save step of one loop iteration
SavePoint(ps, st, n) ==
    IF st.lat # NullVal /\ st.lon # NullVal /\ IsDifferent(ps, st)
    THEN Append(ps, PositionFrom(st, n))
    ELSE ps

\* one iteration of the for loop of parseNMEA on the n-th non-blank line
LoopBody(acc, nl, n) ==
    LET ln == nl.line
    IN  IF ln.k \in {"noise", "nopkt"} THEN acc
        ELSE IF ln.k = "bad"
        THEN [acc EXCEPT !.errors =
                 Append(@, [line |-> n, message |-> "parse", sentence |-> ln])]
        ELSE LET st == UpdateState(acc.currentState, ln, n)
             IN  [acc EXCEPT !.currentState = st,
                             !.positions = SavePoint(@, st, n)]

RECURSIVE ForLoop(_, _, _)
ForLoop(ls, i, acc) ==
    IF i >= Len(ls) THEN acc
    ELSE ForLoop(ls, i + 1, LoopBody(acc, ls[i + 1], i + 1))

\* the first ten errors
FirstTen(es) == IF Len(es) <= 10 THEN es ELSE SubSeq(es, 1, 10)

\* what parseNMEA returns
Returned(ls, ps, es) ==
    [type |-> "parseNMEA", positions |-> ps,
     summary |-> [totalLines |-> Len(ls), positionsFound |-> Len(ps),
                  errors |-> Len(es), errorDetails |-> FirstTen(es)]]

parseNMEA(content) ==
    LET ls == FilterLines(content)
        acc == ForLoop(ls, 0, [currentState |-> InitialState,
                               positions |-> <<>>, errors |-> <<>>])
    IN  Returned(ls, acc.positions, acc.errors)

\* extractPosition(packet, state): the switch, each coordinate on its own
UpdateLive(st, pk, n) ==
    LET lat == IF pk.latitude # Undefined THEN pk.latitude ELSE st.lat
        lon == IF pk.longitude # Undefined THEN pk.longitude ELSE st.lon
        spd == IF pk.speedKnots # Undefined THEN pk.speedKnots ELSE st.speed
        crs == IF pk.trackTrue # Undefined THEN pk.trackTrue ELSE st.course
    IN  IF pk.id = "RMC"
        THEN [st EXCEPT !.lat = lat, !.lon = lon, !.speed = spd, !.course = crs,
                 !.timestamp = IF pk.datetime # Undefined
                               THEN TimeOf(pk.datetime, pk.obj, n) ELSE @]
        ELSE IF pk.id \in {"GGA", "GLL"} THEN [st EXCEPT !.lat = lat, !.lon = lon]
        ELSE IF pk.id = "VTG" THEN [st EXCEPT !.speed = spd, !.course = crs]
        ELSE IF pk.id \in {"HDT", "HDG"}
        THEN [st EXCEPT !.course = IF pk.heading # Undefined THEN pk.heading ELSE @]
        ELSE st

\* the state object of a connection before its first sentence
EmptyState ==
    [lat |-> Undefined, lon |-> Undefined, timestamp |-> NoDate,
     speed |-> Undefined, course |-> Undefined, mmsi |-> 1]

NoPosition == [type |-> "null"]

\* what extractPosition returns for the updated state
extractPosition(st, n) ==
    IF st.lat # Undefined /\ st.lon # Undefined
    THEN [type |-> "position"] @@ PositionFrom(st, n)
    ELSE NoPosition

----------------------------------------------------------------------------
(* SignalKService.extractPositionFromDelta                                  *)

MaxUpdates == 2
MaxValues == 2

\* one entry of update.values: its path and its value.  For
\* navigation.position the value is an object with latitude / longitude
\* (obj FALSE: the value itself is null); for the other paths a number.
DeltaValue(path, obj, lat, lon, num) ==
    [path |-> path, obj |-> obj, latitude |-> lat, longitude |-> lon, num |-> num]

ValueLib ==
    { DeltaValue("navigation.position", TRUE, 1, 1, Undefined),
      DeltaValue("navigation.position", TRUE, 2, Undefined, Undefined),
      DeltaValue("navigation.position", TRUE, Undefined, 2, Undefined),
      DeltaValue("navigation.position", TRUE, NullVal, 2, Undefined),
      DeltaValue("navigation.position", TRUE, 2, NullVal, Undefined),
      DeltaValue("navigation.position", FALSE, Undefined, Undefined, Undefined),
      DeltaValue("navigation.courseOverGroundTrue", FALSE, Undefined, Undefined, 3),
      DeltaValue("navigation.speedOverGround", FALSE, Undefined, Undefined, 4) }

SeqsOf(S, n) == UNION {[1..k -> S] : k \in 0..n}

\* an update: its timestamp (or none) and its values
UpdateLib ==
    {[timestamp |-> t, values |-> vs] :
        t \in {Undefined, 1}, vs \in SeqsOf(ValueLib, MaxValues)}

DeltaBatches == SeqsOf(UpdateLib, MaxUpdates)

\* the position object at the start of extractPositionFromDelta
FreshPosition ==
    [lat |-> NullVal, lon |-> NullVal, course |-> NullVal, speed |-> NullVal,
     timestamp |-> NewDate(0)]

\* a % n of JavaScript: the result keeps the sign of the dividend
JsRem(a, n) == IF a >= 0 THEN a % n ELSE 0 - ((0 - a) % n)

\* (value.value * 180 / Math.PI) % 360, on angles counted in tenths of a
\* degree: the angle v is the product value.value * 180 / Math.PI
CogDegrees(v) == JsRem(v, 3600)

\* Math.round(x) of an x counted in tenths: the nearest integer, halves up
MathRoundTenths(t) == (t + 5) \div 10

\* course: Math.round(data.course || 0) of SignalKService.savePosition
SignalKCourse(course) ==
    IF course = NullVal \/ course = 0 THEN 0 ELSE MathRoundTenths(course)

\* the switch on value.path
ApplyValue(pos, v) ==
    IF v.path = "navigation.position"
    THEN IF v.obj /\ v.latitude # Undefined /\ v.longitude # Undefined
         THEN [pos EXCEPT !.lat = v.latitude, !.lon = v.longitude]
         ELSE pos
    ELSE IF v.path = "navigation.courseOverGroundTrue"
    THEN IF v.num # Undefined THEN [pos EXCEPT !.course = CogDegrees(v.num)] ELSE pos
    ELSE IF v.path = "navigation.speedOverGround"
    THEN IF v.num # Undefined THEN [pos EXCEPT !.speed = v.num] ELSE pos
    ELSE pos

RECURSIVE ApplyValues(_, _, _)
ApplyValues(pos, vs, j) ==
    IF j > Len(vs) THEN pos
    ELSE ApplyValues(ApplyValue(pos, vs[j]), vs, j + 1)

\* the body of delta.updates.forEach
ApplyUpdate(pos, u, k) ==
    ApplyValues(IF u.timestamp # Undefined
                THEN [pos EXCEPT !.timestamp = DateObj(u.timestamp, 2 * k)]
                ELSE pos,
                u.values, 1)

RECURSIVE ApplyUpdates(_, _, _)
ApplyUpdates(pos, us, k) ==
    IF k > Len(us) THEN pos
    ELSE ApplyUpdates(ApplyUpdate(pos, us[k], k), us, k + 1)

extractPositionFromDelta(updates) ==
    IF Len(updates) = 0 THEN NoPosition
    ELSE LET pos == ApplyUpdates(FreshPosition, updates, 1)
         IN  IF pos.lat # NullVal /\ pos.lon # NullVal
             THEN [type |-> "position"] @@ pos
             ELSE NoPosition

----------------------------------------------------------------------------
(* Decoder runs: one decoder applied to one input                          *)

\* the library hands every time of a text over in the same way
Uniform(ls) ==
    \A i, j \in 1..Len(ls) :
        (ls[i].k = "pkt" /\ ls[j].k = "pkt" /\ ls[i].id = ls[j].id)
            => (ls[i].obj = ls[j].obj \/ ls[i].datetime = Undefined
                                      \/ ls[j].datetime = Undefined)

Texts == {ls \in SeqsOf(LineLib, MaxLines) : Uniform(ls)}

InitDecode ==
    /\ IdleRegistry
    /\ IdleBrowser
    /\ IdleServer
    /\ IdleManager
    /\ IdleListener
    /\ fn \in {"parseNMEA", "extractPosition", "delta"}
    /\ input \in (IF fn = "delta" THEN DeltaBatches ELSE Texts)
    /\ lineNo = 0
    /\ currentState = (IF fn = "extractPosition" THEN EmptyState ELSE InitialState)
    /\ positions = <<>>
    /\ errors = <<>>
    /\ result = [type |-> "none"]

\* parseNMEA: one iteration of the loop over the lines
ParseLine ==
    /\ fn = "parseNMEA"
    /\ lineNo < Len(FilterLines(input))
    /\ LET acc == LoopBody([currentState |-> currentState,
                            positions |-> positions, errors |-> errors],
                           FilterLines(input)[lineNo + 1], lineNo + 1)
       IN  /\ currentState' = acc.currentState
           /\ positions' = acc.positions
           /\ errors' = acc.errors
    /\ lineNo' = lineNo + 1
    /\ UNCHANGED <<fn, input, result>>
    /\ UNCHANGED <<mgrVars, lsnVars, srvVars, dbVars, webVars>>

\* parseNMEA: the return after the loop
ReturnNMEA ==
    /\ fn = "parseNMEA"
    /\ lineNo = Len(FilterLines(input))
    /\ result.type = "none"
    /\ result' = Returned(FilterLines(input), positions, errors)
    /\ UNCHANGED <<fn, input, lineNo, currentState, positions, errors>>
    /\ UNCHANGED <<mgrVars, lsnVars, srvVars, dbVars, webVars>>

\* a live connection: parseSentence and extractPosition on the next
\* sentence, with the state object the connection keeps
ExtractLive ==
    /\ fn = "extractPosition"
    /\ lineNo < Len(input)
    /\ lineNo' = lineNo + 1
    /\ IF input[lineNo + 1].k # "pkt"
       THEN /\ result' = NoPosition
            /\ UNCHANGED <<currentState, positions>>
       ELSE /\ currentState' = UpdateLive(currentState, input[lineNo + 1], lineNo + 1)
            /\ result' = extractPosition(currentState', lineNo + 1)
            /\ positions' = IF result'.type = "position"
                            THEN Append(positions, result') ELSE positions
    /\ UNCHANGED <<fn, input, errors>>
    /\ UNCHANGED <<mgrVars, lsnVars, srvVars, dbVars, webVars>>

\* extractPositionFromDelta on one delta batch
ExtractDelta ==
    /\ fn = "delta"
    /\ result.type = "none"
    /\ result' = extractPositionFromDelta(input)
    /\ lineNo' = 1
    /\ UNCHANGED <<fn, input, currentState, positions, errors>>
    /\ UNCHANGED <<mgrVars, lsnVars, srvVars, dbVars, webVars>>

NextDecode ==
    \/ ParseLine
    \/ ReturnNMEA
    \/ ExtractLive
    \/ ExtractDelta

SpecDecode == InitDecode /\ [][NextDecode]_vars

----------------------------------------------------------------------------
(* C11: in the position sequence of parseNMEA no two adjacent positions    *)
(* have the same lat, the same lon and the same timestamp value; two       *)
(* consecutive sentences reporting identical lat, lon and timestamp add    *)
(* exactly one position.                                                   *)
C11_NoAdjacentDuplicates ==
    fn = "parseNMEA" =>
        \A k \in 1..(Len(positions) - 1) :
            ~ /\ positions[k].lat = positions[k + 1].lat
              /\ positions[k].lon = positions[k + 1].lon
              /\ positions[k].timestamp.t = positions[k + 1].timestamp.t

----------------------------------------------------------------------------
\* a coordinate that is a number
Known(x) == x # NullVal /\ x # Undefined

\* the j-th sentence the decoder has consumed
Consumed(j) == IF fn = "parseNMEA" THEN FilterLines(input)[j].line ELSE input[j]

\* the values of a delta batch, all updates together
BatchValues(us) == UNION {{us[k].values[j] : j \in 1..Len(us[k].values)} : k \in 1..Len(us)}

(* C12: a decoder emits a position only when both latitude and longitude  *)
(* are known: parseNMEA and extractPosition emit nothing until the         *)
(* accumulator holds a lat and a lon, each taken from a sentence consumed  *)
(* so far, and extractPositionFromDelta returns a position only if one     *)
(* navigation.position value of that batch carries both coordinates.       *)
C12_PositionNeedsLatAndLon ==
    /\ fn \in {"parseNMEA", "extractPosition"} =>
          /\ (~Known(currentState.lat) \/ ~Known(currentState.lon)) => positions = <<>>
          /\ \A k \in 1..Len(positions) :
                /\ Known(positions[k].lat) /\ Known(positions[k].lon)
                /\ \E j \in 1..lineNo : Consumed(j).latitude = positions[k].lat
                /\ \E j \in 1..lineNo : Consumed(j).longitude = positions[k].lon
    /\ (fn = "extractPosition" /\ result.type = "position") =>
          Known(result.lat) /\ Known(result.lon)
    /\ (fn = "delta" /\ result.type = "position") =>
          /\ Known(result.lat) /\ Known(result.lon)
          /\ \E v \in BatchValues(input) :
                /\ v.path = "navigation.position" /\ v.obj
                /\ v.latitude = result.lat /\ v.longitude = result.lon

\* a velocity sentence came first and emitted nothing; a later fix emitted
C12_Witness ==
    /\ fn \in {"parseNMEA", "extractPosition"}
    /\ lineNo = 3
    /\ Consumed(1).id = "VTG"
    /\ Consumed(2).k = "pkt" /\ Consumed(2).latitude = 1 /\ Consumed(2).longitude = Undefined
    /\ Len(positions) = 1

----------------------------------------------------------------------------
\* the loop of parseNMEA run over a whole text
RunOn(content) ==
    ForLoop(FilterLines(content), 0,
            [currentState |-> InitialState, positions |-> <<>>, errors |-> <<>>])

IsBad(l) == l.k = "bad"
NotBad(l) == l.k # "bad"
IsBadLine(nl) == nl.line.k = "bad"

\* the text without the sentences that fail to parse
RemoveBad(content) == SelectSeq(content, NotBad)

\* the part of the text read when lineNo lines have been consumed
PrefixRead ==
    IF lineNo = 0 THEN <<>> ELSE SubSeq(input, 1, FilterLines(input)[lineNo].no)

\* positions and accumulator, by value
PosValues(ps) ==
    [k \in 1..Len(ps) |->
        [lat |-> ps[k].lat, lon |-> ps[k].lon, t |-> ps[k].timestamp.t,
         speed |-> ps[k].speed, course |-> ps[k].course]]

StateValues(st) ==
    [lat |-> st.lat, lon |-> st.lon, t |-> st.timestamp.t,
     speed |-> st.speed, course |-> st.course]

\* one error entry per unparsable sentence read so far: the number of its
\* line in the text, its text, the message
ErrorsExpected ==
    LET bad == SelectSeq(Numbered(PrefixRead), IsBadLine)
    IN  [k \in 1..Len(bad) |->
            [line |-> bad[k].no, message |-> "parse", sentence |-> bad[k].line]]

(* C17: in parseNMEA a sentence that fails to parse is recorded in the     *)
(* error list with its line number, raw text and message, leaves the       *)
(* accumulator and the positions unchanged, and later lines are still      *)
(* processed: the positions equal those of the same text with the          *)
(* malformed lines removed.                                                *)
C17_MalformedLinesIsolated ==
    fn = "parseNMEA" =>
        /\ errors = ErrorsExpected
        /\ PosValues(positions) = PosValues(RunOn(RemoveBad(PrefixRead)).positions)
        /\ StateValues(currentState) = StateValues(RunOn(RemoveBad(PrefixRead)).currentState)
        /\ result.type = "parseNMEA" =>
              /\ PosValues(result.positions)
                    = PosValues(parseNMEA(RemoveBad(input)).positions)
              /\ result.summary.errors = Len(SelectSeq(input, IsBad))

----------------------------------------------------------------------------
\* this step is a startForBoat call for vessel b, issued by the API, that
\* ran to its end without an exception
StartCompletes(b) ==
    /\ Len(calls') = Len(calls) + 1
    /\ calls'[Len(calls')].op = "start"
    /\ calls'[Len(calls')].boat = b
    /\ calls'[Len(calls')].pc = "done"
    /\ inst'[calls'[Len(calls')].inst].st # "threw"

(* C13: after two successive completed startForVessel calls for the same  *)
(* vessel on a TCP listener manager, the listener created by the first     *)
(* call has been stopped (server closed, client sockets destroyed) before  *)
(* the second listener was created, and the map holds exactly one listener *)
(* for that vessel, the one created by the second call.                    *)
C13_SecondStartReplacesFirst ==
    [][\A b \in Boats :
          (kind \in {"nmea", "at4"} /\ StartCompletes(b)) =>
              LET second == calls'[Len(calls')].inst
              IN  /\ \A c \in 1..Len(calls) :
                        (calls[c].op = "start" /\ calls[c].boat = b) =>
                            /\ inst'[calls[c].inst].st \in {"stopped", "threw"}
                            /\ inst'[calls[c].inst].clients = 0
                  /\ inst'[second].clean
                  /\ listeners'[b] = second
                  /\ Cardinality({x \in getStatus' : x.boatId = b}) = 1]_vars

\* two startForBoat calls for one vessel; the first listener had a client
C13_Witness ==
    /\ kind \in {"nmea", "at4"}
    /\ Len(calls) = 2
    /\ calls[1].op = "start" /\ calls[2].op = "start"
    /\ calls[1].boat = calls[2].boat
    /\ inst[calls[1].inst].st = "stopped"
    /\ inst[calls[2].inst].st = "running"
    /\ inst[calls[2].inst].clients = 1
    /\ listeners[calls[2].boat] = calls[2].inst

----------------------------------------------------------------------------
\* this step is the end of a restartForBoat call that read no assignment
\* (port cleared, or no Boat document)
RestartClearedCompletes(c) ==
    /\ c \in 1..Len(calls)
    /\ calls[c].op = "restart" /\ calls[c].pc = "resume"
    /\ calls[c].port \notin Ports
    /\ calls'[c].pc = "done"

(* C14: after restartForVessel(id) completes for a vessel whose port       *)
(* assignment has been cleared (or whose record no longer exists), the     *)
(* vessel's listener is stopped, the vessel is absent from the map and     *)
(* from getStatus(); listeners of other vessels are untouched.             *)
C14_RestartClearedStops ==
    [][\A c \in 1..MaxCalls :
          RestartClearedCompletes(c) =>
              LET b == calls[c].boat
              IN  /\ AllReleased(inst', b)
                  /\ listeners'[b] = 0
                  /\ \A x \in getStatus' : x.boatId # b
                  /\ \A i \in 1..Len(inst) : inst[i].boat # b => inst'[i] = inst[i]
                  /\ \A o \in Boats \ {b} : listeners'[o] = listeners[o]]_vars

----------------------------------------------------------------------------
\* this step is startAll's call of startForBoat for the next vessel found
StartAllStarts(c) ==
    /\ calls[c].op = "startAll" /\ calls[c].pc = "loop"
    /\ calls[c].todo # <<>>
    /\ calls'[c] # calls[c]

\* this step leaves the instances and map entries of the vessels other
\* than b as they are
OthersUntouched(b) ==
    /\ \A i \in 1..Len(inst) : inst[i].boat # b => inst'[i] = inst[i]
    /\ \A o \in Boats \ {b} : listeners'[o] = listeners[o]

(* C15: during startAll a failure to start the listener of one vessel (an  *)
(* exception inside startForVessel, or a bind/connect error reported by    *)
(* the listener) does not prevent the listeners of the other configured    *)
(* vessels from being started, stops no listener of another vessel, and    *)
(* never ends startAll early.                                              *)
C15_StartAllIsolatesFailures ==
    [][\A c \in 1..Len(calls) :
          calls[c].op = "startAll" =>
              /\ calls'[c].pc = "done" => calls'[c].todo = <<>>
              /\ StartAllStarts(c) =>
                    /\ Len(inst') = Len(inst) + 1
                    /\ inst'[Len(inst')].boat = Head(calls[c].todo)[1]
                    /\ calls'[c].todo = Tail(calls[c].todo)
                    /\ calls'[c].pc \in {"loop", "await_start"}
                    /\ OthersUntouched(Head(calls[c].todo)[1])
              /\ (calls[c].pc = "await_start" /\ calls'[c].pc # "await_start") =>
                    /\ calls'[c].pc = "set"
                    /\ OthersUntouched(calls[c].boat)
              /\ (calls[c].pc = "set" /\ calls'[c].pc # "set") =>
                    /\ calls'[c].pc = "loop"
                    /\ listeners'[calls[c].boat] = calls[c].inst
                    /\ OthersUntouched(calls[c].boat)]_vars

\* startAll has finished; the first vessel's listener failed to start and
\* the second vessel's listener is running
C15_Witness ==
    \E c \in 1..Len(calls) :
        /\ calls[c].op = "startAll" /\ calls[c].pc = "done"
        /\ \E i, j \in 1..Len(inst) :
              /\ i < j
              /\ inst[i].boat # inst[j].boat
              /\ inst[i].st \in {"failed", "threw"}
              /\ inst[j].st = "running"
              /\ listeners[inst[j].boat] = j

----------------------------------------------------------------------------
\* stopForBoat(b) applied to a manager state <<ins, map>>
AfterStop(ins, map, b) ==
    [ins |-> StopForBoatInst(ins, map, b), map |-> StopForBoatMap(map, b)]

(* C16: stopForVessel(id) for a vessel with no tracked listener changes    *)
(* nothing (map, every other vessel's listener and its sessions); for any  *)
(* vessel it touches only that vessel's listener and entry, and calling it *)
(* twice in a row has the same effect as calling it once.                  *)
C16_StopAbsentIsNoOp ==
    \A b \in Boats :
        LET once == AfterStop(inst, listeners, b)
            twice == AfterStop(once.ins, once.map, b)
        IN  /\ listeners[b] = 0 => once = [ins |-> inst, map |-> listeners]
            /\ once.map[b] = 0
            /\ \A o \in Boats \ {b} : once.map[o] = listeners[o]
            /\ \A i \in 1..Len(inst) : i # listeners[b] => once.ins[i] = inst[i]
            /\ twice = once

\* a vessel's listener has been stopped and removed from the map while
\* another vessel's listener runs with a client connected
C16_Witness ==
    \E b \in Boats, o \in Boats :
        /\ b # o
        /\ listeners[b] = 0
        /\ \E i \in 1..Len(inst) : inst[i].boat = b /\ inst[i].st = "stopped"
        /\ listeners[o] # 0
        /\ inst[listeners[o]].st = "running"
        /\ inst[listeners[o]].clients > 0

----------------------------------------------------------------------------
(* utils/at4 applied to one frame: parseLoginPacket and the login ack,     *)
(* parseLocationPacket, calculateCRC16                                     *)

\* what a device puts on the wire ------------------------------------------

\* a device identity of 15 digits takes 16 BCD digits, the first one 0
Pad16(d) == IF Len(d) = 15 THEN <<0>> \o d ELSE d

\* 16 digits packed two per byte, high nibble first
BcdBytes(d) == [k \in 1..(Len(d) \div 2) |-> 16 * d[2 * k - 1] + d[2 * k]]

U16Bytes(n) == <<n \div 256, n % 256>>

U32Bytes(n) ==
    <<n \div 16777216, (n \div 65536) % 256, (n \div 256) % 256, n % 256>>

Identities ==
    { <<1, 2, 3, 4, 5, 6, 7, 8, 9, 0, 1, 2, 3, 4, 5>>,
      <<8, 6, 0, 0, 1, 6, 0, 2, 0, 7, 2, 4, 7, 9, 9>>,
      <<3, 5, 8, 7, 3, 5, 0, 7, 1, 2, 4, 5, 6, 7, 8, 9>> }

Serials == {0, 1, 255, 256, 10811, 65535}     \* 10811 = 0x2A3B

\* a LOGIN frame of the documented layout: identity (8), type id (2),
\* time zone / language (2), serial, CRC of the parser variant
LoginInput(pv, d, ser) ==
    [identity |-> d, serial |-> ser,
     frame |-> MkFrame(pv, LOGIN, BcdBytes(Pad16(d)) \o <<34, 0, 50, 1>>, ser, TRUE)]

LoginInputs(pv) == {LoginInput(pv, d, ser) : d \in Identities, ser \in Serials}

RawLats == {0, 1, 1800000, 72000000, 162000000}
RawLons == {0, 133200000, 324000000}
CourseBits == {0, 18, 35, 63}
OtherStatus == {0, 3, 1011}      \* status bits other than bits 3 and 2

\* a LOCATION frame of the minimal layout carrying the given fields
LocationInput(pv, la, lo, cb, north, west, other) ==
    [latRaw |-> la, lonRaw |-> lo, courseBits |-> cb, north |-> north,
     west |-> west,
     frame |-> MkFrame(pv, LOCATION,
                  <<24, 1, 2, 3, 4, 5, 12>> \o U32Bytes(la) \o U32Bytes(lo)
                  \o <<10>>
                  \o U16Bytes(cb * 1024 + other + (IF west THEN 8 ELSE 0)
                                               + (IF north THEN 4 ELSE 0))
                  \o CellInfo, 7, TRUE)]

LocationInputs(pv) ==
    {LocationInput(pv, la, lo, cb, n, w, o) :
        la \in RawLats, lo \in RawLons, cb \in CourseBits,
        n \in BOOLEAN, w \in BOOLEAN, o \in OtherStatus}

MaxCrcLen == 3                  \* bytes from the length byte to the serial
CrcBytes == {0, 1, 128, 255}

\* a buffer whose bytes from index 2 to length - 4 are the given ones
CrcInputs ==
    {[bytes |-> bs, frame |-> <<START_BIT, START_BIT>> \o bs \o <<0, 0, STOP_CR, STOP_LF>>] :
        bs \in SeqsOf(CrcBytes, MaxCrcLen)}

\* the runs ------------------------------------------------------------------

\* a HEARTBEAT frame of 16 bytes: terminal status (1 byte), voltage (2),
\* signal level (1), reserved (2) and the serial between the type byte and
\* a valid CRC
HeartbeatStatus == {0, 68, 255}
HeartbeatVolts == {0, 402, 65535}
HeartbeatSignals == {0, 4}
HeartbeatReserved == {0, 2}
HeartbeatInput(pv, st, v, sig, res, ser) ==
    [serial |-> ser,
     frame |-> MkFrame(pv, HEARTBEAT,
                  <<st>> \o U16Bytes(v) \o <<sig>> \o U16Bytes(res), ser, TRUE)]
HeartbeatInputs(pv) ==
    {HeartbeatInput(pv, st, v, sig, res, ser) :
        st \in HeartbeatStatus, v \in HeartbeatVolts, sig \in HeartbeatSignals,
        res \in HeartbeatReserved, ser \in Serials}

\* every value of the 6-bit course field, in one LOCATION frame each
AllCourseBits == 0..63
CourseFrames(pv) ==
    {[src |-> "at4", courseBits |-> cb,
      frame |-> LocationInput(pv, 72000000, 133200000, cb, TRUE, FALSE, 0).frame] :
        cb \in AllCourseBits}

\* course-over-ground angles of a delta, in tenths of a degree: both signs,
\* whole turns, and angles within half a degree of a whole turn
CogAngles ==
    {0, 4, 900, 1805, 3594, 3595, 3599, 3600, 3604, 7195, 7200,
     0 - 5, 0 - 6, 0 - 900, 0 - 3595, 0 - 3600, 0 - 4500}
CourseDeltas ==
    {[src |-> "signalk", angle |-> a,
      updates |-> <<[timestamp |-> 1,
                     values |-> <<DeltaValue("navigation.position", TRUE, 1, 1, Undefined),
                                  DeltaValue("navigation.courseOverGroundTrue", FALSE,
                                             Undefined, Undefined, a)>>]>>] :
        a \in CogAngles}
CourseInputs(pv) == CourseFrames(pv) \cup CourseDeltas

InitCodec ==
    /\ IdleRegistry
    /\ IdleBrowser
    /\ IdleServer
    /\ IdleManager
    /\ proto = "at4" /\ parser \in {"strict", "lenient"} /\ lsnr = "assigned"
    /\ IdleSessions
    /\ fn \in {"login", "location", "crc", "course", "heartbeat"}
    /\ input \in (IF fn = "login" THEN LoginInputs(parser)
                  ELSE IF fn = "location" THEN LocationInputs(parser)
                  ELSE IF fn = "course" THEN CourseInputs(parser)
                  ELSE IF fn = "heartbeat" THEN HeartbeatInputs(parser)
                  ELSE CrcInputs)
    /\ lineNo = 0
    /\ currentState = <<>>
    /\ positions = <<>>
    /\ errors = <<>>
    /\ result = [type |-> "none"]

\* parseLoginPacket(buffer)
DecodeLogin ==
    /\ fn = "login" /\ lineNo = 0
    /\ result' = parseLoginPacket(parser, input.frame)
    /\ lineNo' = 1
    /\ UNCHANGED <<fn, input, currentState, positions, errors>>
    /\ UNCHANGED <<mgrVars, lsnVars, srvVars, dbVars, webVars>>

\* generateResponse(parsed) for the record parseLoginPacket returned
AckLogin ==
    /\ fn = "login" /\ lineNo = 1
    /\ result.type = "login"
    /\ result' = [type |-> "ack", parsed |-> result,
                  bytes |-> generateResponse(parser, result)]
    /\ lineNo' = 2
    /\ UNCHANGED <<fn, input, currentState, positions, errors>>
    /\ UNCHANGED <<mgrVars, lsnVars, srvVars, dbVars, webVars>>

\* parseLocationPacket(buffer)
DecodeLocation ==
    /\ fn = "location" /\ lineNo = 0
    /\ result' = parseLocationPacket(parser, input.frame)
    /\ lineNo' = 1
    /\ UNCHANGED <<fn, input, currentState, positions, errors>>
    /\ UNCHANGED <<mgrVars, lsnVars, srvVars, dbVars, webVars>>

\* calculateCRC16(buffer, 2, buffer.length - 4) of either implementation
ComputeCrc ==
    /\ fn = "crc" /\ lineNo = 0
    /\ result' = [type |-> "crc",
                  table |-> calculateCRC16("strict", input.frame, 2, Len(input.frame) - 4),
                  bitwise |-> calculateCRC16("lenient", input.frame, 2, Len(input.frame) - 4)]
    /\ lineNo' = 1
    /\ UNCHANGED <<fn, input, currentState, positions, errors>>
    /\ UNCHANGED <<mgrVars, lsnVars, srvVars, dbVars, webVars>>

\* the course of the record a pipeline hands to Location.create and to
\* broadcast: handleLocation for a LOCATION frame, savePosition for a delta
HandCourse ==
    /\ fn = "course" /\ lineNo = 0
    /\ result' =
         IF input.src = "at4"
         THEN LET parsed == parseLocationPacket(parser, input.frame)
              IN  IF parsed.type # "location" THEN [type |-> "dropped"]
                  ELSE [type |-> "handed",
                        course |-> LocationDocAssigned(NoBoat, parsed).course]
         ELSE LET pos == extractPositionFromDelta(input.updates)
              IN  IF pos.type # "position" THEN [type |-> "dropped"]
                  ELSE [type |-> "handed", course |-> SignalKCourse(pos.course)]
    /\ lineNo' = 1
    /\ UNCHANGED <<fn, input, currentState, positions, errors>>
    /\ UNCHANGED <<mgrVars, lsnVars, srvVars, dbVars, webVars>>

\* parsePacket(buffer) for a frame of type HEARTBEAT
DecodeHeartbeat ==
    /\ fn = "heartbeat" /\ lineNo = 0
    /\ result' = parsePacket(parser, input.frame)
    /\ lineNo' = 1
    /\ UNCHANGED <<fn, input, currentState, positions, errors>>
    /\ UNCHANGED <<mgrVars, lsnVars, srvVars, dbVars, webVars>>

\* generateResponse(parsed) and socket.write(response) in processPacket,
\* for the record parsePacket returned
AckHeartbeat ==
    /\ fn = "heartbeat" /\ lineNo = 1
    /\ result # Null
    /\ result' = [type |-> "ack", parsed |-> result,
                  bytes |-> generateResponse(parser, result)]
    /\ lineNo' = 2
    /\ UNCHANGED <<fn, input, currentState, positions, errors>>
    /\ UNCHANGED <<mgrVars, lsnVars, srvVars, dbVars, webVars>>

NextCodec ==
    \/ HandCourse
    \/ DecodeHeartbeat
    \/ AckHeartbeat
    \/ DecodeLogin
    \/ AckLogin
    \/ DecodeLocation
    \/ ComputeCrc

SpecCodec == InitCodec /\ [][NextCodec]_vars

\* C24: every position record handed to the persistence or broadcast sink
\* has a course of whole degrees with 0 <= course < 360, for every value of
\* the 6-bit course field of a LOCATION frame and for every
\* course-over-ground angle of a delta, negative angles and angles that
\* round up to 360 included.
C24_CourseInRange ==
    (fn = "course" /\ lineNo = 1 /\ result.type = "handed")
        => (result.course >= 0 /\ result.course < 360)

----------------------------------------------------------------------------
\* the serial an ack frame carries, and whether its CRC field is the CRC of
\* its bytes from the length byte to the end of the serial
AckSerial(ack) == ack[5] * 256 + ack[6]

AckVerifies(pv, ack) ==
    /\ Len(ack) = 10
    /\ calculateCRC16(pv, ack, 2, 6) = ack[7] * 256 + ack[8]

(* C18: for every LOGIN frame the decoded device identity equals the       *)
(* identity encoded in the 8 BCD payload bytes (123456789012345 decodes to *)
(* exactly 123456789012345), the decoded serial equals the frame's serial  *)
(* field, and the ack generated from the decoded record echoes that serial *)
(* with a CRC that verifies.                                               *)
C18_LoginDecodesIdentityAndSerial ==
    fn = "login" =>
        /\ lineNo >= 1 => result.type \in {"login", "ack"}
        /\ result.type = "login" =>
              /\ result.imei = input.identity
              /\ result.serial = input.serial
        /\ result.type = "ack" =>
              /\ result.parsed.imei = input.identity
              /\ result.parsed.serial = input.serial
              /\ AckSerial(result.bytes) = input.serial
              /\ AckVerifies(parser, result.bytes)

(* C19: for every LOCATION frame the decoded course is 10 times bits 15-10 *)
(* of the course/status field, the decoded latitude is the raw latitude,   *)
(* positive when the north flag (bit 2) is set and negated when it is      *)
(* clear, and the decoded longitude is the raw longitude, negated when the *)
(* west flag (bit 3) is set and positive when it is clear, in units of     *)
(* 1/1,800,000 degree (raw lat 72,000,000 north gives 40, raw lon          *)
(* 133,200,000 west gives -74, course bits 18 give 180).                   *)
C19_LocationCourseAndHemisphere ==
    (fn = "location" /\ lineNo = 1) =>
        /\ result.type = "location"
        /\ result.course = 10 * input.courseBits
        /\ result.lat = (IF input.north THEN input.latRaw ELSE 0 - input.latRaw)
        /\ result.lon = (IF input.west THEN 0 - input.lonRaw ELSE input.lonRaw)
        /\ (input.latRaw = 72000000 /\ input.north) => result.lat = 40 * LatScale
        /\ (input.lonRaw = 133200000 /\ input.west) => result.lon = (0 - 74) * LatScale
        /\ input.courseBits = 18 => result.course = 180

\* the frame of the example has been decoded, by either parser
C19_Witness ==
    /\ fn = "location" /\ lineNo = 1
    /\ input.latRaw = 72000000 /\ input.north
    /\ input.lonRaw = 133200000 /\ input.west
    /\ input.courseBits = 18
    /\ result.type = "location"
    /\ result.lat = 40 * LatScale
    /\ result.lon = (0 - 74) * LatScale
    /\ result.course = 180

----------------------------------------------------------------------------
(* A reference CRC-16 with polynomial 0x1021, written as the shift         *)
(* register of the definition: one message bit at a time                   *)

\* the catalogued CRC-16 parametrisations with polynomial 0x1021
RefVariants ==
    { [name |-> "CCITT-FALSE", init |-> 65535, refl |-> FALSE, xorout |-> 0],
      [name |-> "XMODEM",      init |-> 0,     refl |-> FALSE, xorout |-> 0],
      [name |-> "GENIBUS",     init |-> 65535, refl |-> FALSE, xorout |-> 65535],
      [name |-> "KERMIT",      init |-> 0,     refl |-> TRUE,  xorout |-> 0],
      [name |-> "MCRF4XX",     init |-> 65535, refl |-> TRUE,  xorout |-> 0],
      [name |-> "X-25",        init |-> 65535, refl |-> TRUE,  xorout |-> 65535] }

\* one message bit through the register; reflected: shift right with the
\* bit-reversed polynomial 0x8408, otherwise shift left with 0x1021
RefBit(crc, bit, refl) ==
    IF refl
    THEN IF (crc + bit) % 2 = 1 THEN BitXor(crc \div 2, 33800) ELSE crc \div 2
    ELSE IF ((crc \div 32768) + bit) % 2 = 1
         THEN BitXor((crc * 2) % 65536, 4129)
         ELSE (crc * 2) % 65536

\* the bits of one byte, least significant first when reflected
RECURSIVE RefByte(_, _, _, _)
RefByte(crc, byte, k, refl) ==
    IF k = 8 \/ crc < 0 THEN crc
    ELSE RefByte(RefBit(crc, IF refl THEN (byte \div (2 ^ k)) % 2
                                      ELSE (byte \div (2 ^ (7 - k))) % 2, refl),
                 byte, k + 1, refl)

RECURSIVE RefBytes(_, _, _, _)
RefBytes(crc, bs, i, refl) ==
    IF i > Len(bs) \/ crc < 0 THEN crc
    ELSE RefBytes(RefByte(crc, bs[i], 0, refl), bs, i + 1, refl)

RefCrc(v, bs) == BitXor(RefBytes(v.init, bs, 1, v.refl), v.xorout)

(* C20: for every byte sequence, calculateCRC16 over a frame's bytes from  *)
(* the length byte to the end of the serial returns the value a reference  *)
(* CRC-16/CCITT with polynomial 0x1021 returns, for the table-driven       *)
(* implementation and for the bit-by-bit implementation alike.             *)
C20_CrcEqualsReference ==
    (fn = "crc" /\ lineNo = 1) =>
        \E v \in RefVariants :
            /\ result.table = RefCrc(v, input.bytes)
            /\ result.bitwise = RefCrc(v, input.bytes)

\* C29: a HEARTBEAT frame of 16 bytes, laid out as terminal status (1
\* byte), voltage (2), signal level (1), reserved (2), serial (2) between
\* the type byte and a valid CRC, is accepted by parsePacket with the serial
\* read from the 2 bytes before the CRC, and the ack written for it echoes
\* that serial.
C29_HeartbeatAcceptedAndAcked ==
    fn = "heartbeat" =>
        /\ Len(input.frame) = 16
        /\ ReadU16(input.frame, Len(input.frame) - 6) = input.serial
        /\ lineNo = 1 =>
              /\ result # Null
              /\ result.type = "heartbeat"
              /\ result.serial = input.serial
        /\ lineNo = 2 =>
              /\ Len(result.bytes) = 10
              /\ result.bytes[4] = HEARTBEAT
              /\ AckSerial(result.bytes) = input.serial

----------------------------------------------------------------------------
(* One listener with concurrent connections: the connection handler of     *)
(* start(), the data / end / error handlers of each socket                 *)

MaxConn == 2              \* sockets the listener accepts in one run
MaxSessPieces == 2        \* data events per socket

Conns == 1..MaxConn

\* the session object the connection handler creates
NewSession == [imei |-> <<>>, boatId |-> assigned, buffer |-> <<>>]

DeleteAllSessions(map, s) == <<>>

\* this.clients.delete(socket)
DeleteSession(map, s) == [c \in DOMAIN map \ {s} |-> map[c]]

\* what an AT4 device sends in one TCP segment: a LOGIN, or one of the two
\* halves of a LOCATION frame
SessPieces(pv) ==
    LET loc == LocFrame(pv, <<5, 0, 0, 0>>, TRUE)
    IN  { LoginFrame(pv, TRUE), SubSeq(loc, 1, 20), SubSeq(loc, 21, Len(loc)) }

SessPiecesStrict == SessPieces("strict")
SessPiecesLenient == SessPieces("lenient")

\* what an NMEA talker sends in one TCP segment: a whole line, or the first
\* or the second half of a line
NmeaPiece(k, pkt) == [k |-> k, pkt |-> pkt]

NmeaPieces ==
    LET rmc == NmeaPacket("RMC", 1, TRUE, 54 * LatScale, 18 * LatScale)
        far == NmeaPacket("RMC", 1, TRUE, 10 * LatScale, 20 * LatScale)
        vtg == NmeaPacket("VTG", 1, FALSE, 0, 0)
    IN  { NmeaPiece("line", rmc), NmeaPiece("line", vtg),
          NmeaPiece("head", far), NmeaPiece("tail", far) }

InitSess ==
    /\ IdleRegistry
    /\ IdleBrowser
    /\ IdleManager
    /\ IdleDecoder
    /\ proto \in {"at4", "nmea"}
    /\ parser \in (IF proto = "at4" THEN {"strict", "lenient"} ELSE {"strict"})
    /\ lsnr = "assigned"
    /\ assigned \in (IF proto = "at4" THEN {NoBoat, GhostBoat} \cup RegisteredBoats
                      ELSE {NoBoat})
    /\ server = "listening"
    /\ sockets = [s \in Conns |-> "fresh"]
    /\ clients = <<>>
    /\ stream \in [Conns -> SeqsUpTo(IF proto = "nmea" THEN NmeaPieces
                                     ELSE IF parser = "strict" THEN SessPiecesStrict
                                     ELSE SessPiecesLenient, MaxSessPieces)]
    /\ \A s \in Conns \ {1} : Len(stream[s]) < MaxSessPieces
    /\ sent = [s \in Conns |-> 0]
    /\ handed = [s \in Conns |-> <<>>]
    /\ elog = [s \in Conns |-> <<>>]
    /\ tasks = <<>>
    /\ split = [s \in Conns |-> FALSE]
    /\ boatImei = [b \in RegisteredBoats |-> <<>>]
    /\ stateByMMSI = [m \in MMSIs |-> [known |-> FALSE, hasPos |-> FALSE, lat |-> 0, lon |-> 0]]
    /\ boatsByMMSI = {}

\* net.createServer's connection handler: a session for the new socket
Connect(s) ==
    /\ server = "listening"
    /\ sockets[s] = "fresh"
    /\ sockets' = [sockets EXCEPT ![s] = "open"]
    /\ clients' = clients @@ (s :> NewSession)
    /\ UNCHANGED <<proto, parser, lsnr, assigned, stream, sent, handed, elog,
                   tasks, split, boatImei, stateByMMSI, boatsByMMSI, server>>
    /\ UNCHANGED <<mgrVars, decVars, dbVars, webVars>>

\* socket.on('data') of the AT4 listener, for the next segment of socket s
\* (sent counts the data events of the socket)
SessData(s) ==
    /\ proto = "at4"
    /\ sockets[s] = "open" /\ s \in DOMAIN clients
    /\ sent[s] < Len(stream[s])
    /\ \E r \in RandomSerials : HandleData(s, stream[s][sent[s] + 1], r)
    /\ sent' = [sent EXCEPT ![s] = sent[s] + 1]
    /\ UNCHANGED <<split, srvVars, dbVars, webVars>>

\* the line the NMEA data handler completes with this segment: "none" when
\* the segment has no line terminator, "null" for text parseSentence
\* rejects
CompletedLine(buffer, piece) ==
    IF piece.k = "head" THEN [sentenceId |-> "none"]
    ELSE IF piece.k = "line" /\ buffer = <<>> THEN piece.pkt
    ELSE IF piece.k = "tail" /\ buffer = <<NmeaPiece("head", piece.pkt)>> THEN piece.pkt
    ELSE NmeaPacket("null", NoMMSI, FALSE, 0, 0)

\* socket.on('data') of the NMEA listener: buffer += data, split, keep the
\* unterminated rest, processSentence for the completed line
NmeaData(s) ==
    LET k == sent[s] + 1
    IN  /\ proto = "nmea"
        /\ sockets[s] = "open" /\ s \in DOMAIN clients
        /\ k <= Len(stream[s])
        /\ sent' = [sent EXCEPT ![s] = k]
        /\ LET piece == stream[s][k]
               line == CompletedLine(clients[s].buffer, piece)
           IN  /\ clients' = [clients EXCEPT ![s].buffer =
                                 IF piece.k = "head" THEN Append(@, piece) ELSE <<>>]
               /\ IF line.sentenceId = "none"
                  THEN UNCHANGED <<stateByMMSI, elog, tasks>>
                  ELSE SentenceStep(s, k, line)
        /\ UNCHANGED <<proto, parser, lsnr, assigned, stream, handed, split,
                       boatImei, boatsByMMSI>>
        /\ UNCHANGED <<mgrVars, decVars, srvVars, dbVars, webVars>>

\* socket.on('end') / socket.on('error'): this.clients.delete(socket)
Closed(s, how) ==
    /\ sockets[s] = "open"
    /\ sockets' = [sockets EXCEPT ![s] = how]
    /\ clients' = DeleteSession(clients, s)
    /\ UNCHANGED <<proto, parser, lsnr, assigned, stream, sent, handed, elog,
                   tasks, split, boatImei, stateByMMSI, boatsByMMSI, server>>
    /\ UNCHANGED <<mgrVars, decVars, dbVars, webVars>>

NextSess ==
    \/ \E s \in Conns : Connect(s)
    \/ \E s \in Conns : SessData(s)
    \/ \E s \in Conns : NmeaData(s)
    \/ \E s \in Conns, how \in {"ended", "error"} : Closed(s, how)
    \/ \E i \in 1..(MaxSessPieces * MaxConn) : LocFound(i)
    \/ \E i \in 1..(MaxSessPieces * MaxConn) : ImeiFound(i)
    \/ \E i \in 1..(MaxSessPieces * MaxConn), dbUp \in BOOLEAN : ImeiSaved(i, dbUp)
    \/ \E i \in 1..(MaxSessPieces * MaxConn), dbUp \in BOOLEAN : CreateSettled(i, dbUp)
    \/ \E i \in 1..(MaxSessPieces * MaxConn) : NmeaFound(i)

SpecSess == InitSess /\ [][NextSess]_vars

----------------------------------------------------------------------------
(* One connection of the AT4 listener receiving arbitrary bytes: frames    *)
(* that decode, frames that do not, bytes that are no frame at all         *)

MaxBufPieces == 3         \* data events on the connection

Filler(n) == [i \in 1..n |-> 0]

\* segments that are whole frames: a LOGIN, a LOGIN with a wrong CRC, a
\* LOCATION too short to decode, a LOCATION, a HEARTBEAT, three frames of
\* types parsePacket does not decode (one with a wrong CRC and start bits
\* as payload), and a LOGIN behind two stray bytes
FrameLib(pv) ==
    { LoginFrame(pv, TRUE), LoginFrame(pv, FALSE),
      MkFrame(pv, LOCATION, <<1, 2>>, 3, TRUE),
      LocFrame(pv, <<5, 0, 0, 0>>, TRUE),
      HeartbeatFrame(pv),
      MkFrame(pv, ALARM, <<>>, 1, TRUE),
      MkFrame(pv, 0, <<START_BIT, START_BIT>>, 2, FALSE),
      MkFrame(pv, 255, <<LOGIN, LOCATION, HEARTBEAT>>, 65535, FALSE),
      <<7, 7>> \o LoginFrame(pv, TRUE) }

\* segments that are no frames: stray bytes without start bits (3 and 10
\* of them, and 2 ending in 0x78), the first 130 bytes of a frame with the
\* largest length byte, 129 and 130 bytes that continue it; and a LOGIN
NoiseLib(pv) ==
    { <<1, 2, 3>>, <<1, 2, 3, 4, 5, 6, 7, 8, 9, 10>>, <<9, START_BIT>>,
      <<START_BIT, START_BIT, 255>> \o Filler(127), Filler(129), Filler(130),
      LoginFrame(pv, TRUE) }

BufStreams(pv) == SeqsUpTo(FrameLib(pv), MaxBufPieces) \cup SeqsUpTo(NoiseLib(pv), MaxBufPieces)
BufStreamsStrict == BufStreams("strict")
BufStreamsLenient == BufStreams("lenient")

\* the one socket of these runs
BufSock == {1}

InitBuf ==
    /\ IdleRegistry
    /\ IdleBrowser
    /\ IdleManager
    /\ IdleDecoder
    /\ proto = "at4"
    /\ parser \in {"strict", "lenient"}
    /\ lsnr = "assigned"
    /\ assigned \in {NoBoat} \cup RegisteredBoats
    /\ server = "listening"
    /\ sockets = [s \in BufSock |-> "open"]
    /\ clients = [s \in BufSock |-> NewSession]
    /\ stream \in [BufSock -> IF parser = "strict" THEN BufStreamsStrict
                                ELSE BufStreamsLenient]
    /\ sent = [s \in BufSock |-> 0]
    /\ handed = [s \in BufSock |-> <<>>]
    /\ elog = [s \in BufSock |-> <<>>]
    /\ tasks = <<>>
    /\ split = [s \in BufSock |-> FALSE]
    /\ boatImei = [b \in RegisteredBoats |-> <<>>]
    /\ stateByMMSI = [m \in MMSIs |-> [known |-> FALSE, hasPos |-> FALSE, lat |-> 0, lon |-> 0]]
    /\ boatsByMMSI = {}

NextBuf ==
    \/ \E s \in BufSock : SessData(s)
    \/ \E i \in 1..(2 * MaxBufPieces) : LocFound(i)
    \/ \E i \in 1..(2 * MaxBufPieces) : ImeiFound(i)
    \/ \E i \in 1..(2 * MaxBufPieces), dbUp \in BOOLEAN : ImeiSaved(i, dbUp)
    \/ \E i \in 1..(2 * MaxBufPieces), dbUp \in BOOLEAN : CreateSettled(i, dbUp)

SpecBuf == InitBuf /\ [][NextBuf]_vars

\* C28: the buffer a session retains never grows without bound: after
\* handleData has processed a chunk, whatever bytes were received, it is
\* shorter than one frame of the largest size, 255 + 5 = 260 bytes.
C28_BufferBelowMaxFrame ==
    \A s \in DOMAIN clients : Len(clients[s].buffer) < 255 + FRAME_OVERHEAD

\* a session retains 259 bytes after a data event: the head of a frame with
\* length byte 255
C28_Witness ==
    \E s \in DOMAIN clients :
        /\ sent[s] > 0
        /\ Len(clients[s].buffer) = 259
        /\ clients[s].buffer[3] = 255

\* a data event of socket s happens in this step
DataEventOn(s) == sent'[s] # sent[s]

\* the session buffer of socket s right after handleData has appended the
\* chunk of the data event now taken, and the frames that event hands on
Appended(s) == clients[s].buffer \o stream[s][sent[s] + 1]
NewFrames(s) == SubSeq(handed'[s], Len(handed[s]) + 1, Len(handed'[s]))

\* what the scan must make of the appended buffer: nothing is left when it
\* holds no start bits; when the first start bits are at offset n > 0 the
\* first n bytes, and no others, are gone before anything is cut
ScanDiscards(s) ==
    LET whole == Appended(s)
        n == FindStartBits(whole)
        kept == SubSeq(whole, n + 1, Len(whole))
        new == NewFrames(s)
    IN  /\ n = 0 - 1 => (clients'[s].buffer = <<>> /\ new = <<>>)
        /\ n > 0 => IF new = <<>> THEN clients'[s].buffer = kept
                    ELSE new[1] = SubSeq(kept, 1, Len(new[1]))
        /\ \A j \in 1..Len(new) : new[j][1] = START_BIT /\ new[j][2] = START_BIT

\* C27 as stated: whenever a chunk has been appended and the session buffer
\* holds no start marker 0x78 0x78 the entire buffer is discarded; when the
\* marker is found at an offset greater than 0 exactly the bytes before it
\* are discarded; discarded bytes are never part of a decoded frame.
C27_ScanDiscardsAlways ==
    [][\A s \in DOMAIN sockets : DataEventOn(s) => ScanDiscards(s)]_vars

\* C27, amended: the same whenever the appended buffer holds at least 10
\* bytes; a shorter buffer is kept as it is, whatever it holds, until more
\* bytes arrive.
C27_ScanDiscardsFromTenBytes ==
    [][\A s \in DOMAIN sockets : DataEventOn(s) =>
          IF Len(Appended(s)) >= MIN_PACKET THEN ScanDiscards(s)
          ELSE clients'[s].buffer = Appended(s) /\ NewFrames(s) = <<>>]_vars

\* a chunk of two stray bytes followed by a LOGIN frame has been processed:
\* the stray bytes are gone, the frame has been cut and handed on
C27_Witness ==
    \E s \in DOMAIN sockets :
        /\ sent[s] = 1
        /\ FindStartBits(stream[s][1]) = 2
        /\ Len(stream[s][1]) >= MIN_PACKET
        /\ handed[s] = <<SubSeq(stream[s][1], 3, Len(stream[s][1]))>>
        /\ clients[s].buffer = <<>>

\* a frame of at least the minimum size whose type byte is none of LOGIN,
\* LOCATION and HEARTBEAT
UnknownFrame(f) ==
    /\ Len(f) >= MIN_PACKET
    /\ f[1] = START_BIT /\ f[2] = START_BIT
    /\ f[4] \notin {LOGIN, LOCATION, HEARTBEAT}

\* the frame f is cut whole from the appended buffer of socket s: it stands
\* in it with all its length + 5 bytes, and what the session retains is
\* what follows it, or nothing
CutWhole(s, f) ==
    LET whole == Appended(s)
    IN  /\ Len(f) = f[3] + FRAME_OVERHEAD
        /\ \E n \in 0..(Len(whole) - Len(f)) :
              /\ SubSeq(whole, n + 1, n + Len(f)) = f
              /\ clients'[s].buffer \in
                    {<<>>, SubSeq(whole, n + Len(f) + 1, Len(whole))}

\* C26: a frame whose type byte is none of LOGIN, LOCATION and HEARTBEAT
\* decodes to a record of type unknown carrying that type byte, whatever
\* its payload and CRC bytes, never to a decode failure; it is consumed
\* whole from the buffer, no acknowledgement is written for it, and the
\* device identity and the vessel id of the session are unchanged.
C26_UnknownTypeIsInert ==
    [][\A s \in DOMAIN sockets :
          (DataEventOn(s) /\ Len(NewFrames(s)) = 1 /\ UnknownFrame(NewFrames(s)[1])) =>
              LET f == NewFrames(s)[1]
              IN  /\ parsePacket(parser, f) = [type |-> "unknown", protocolNumber |-> f[4]]
                  /\ generateResponse(parser, parsePacket(parser, f)) = <<>>
                  /\ CutWhole(s, f)
                  /\ elog'[s] = elog[s]
                  /\ tasks' = tasks
                  /\ clients'[s].imei = clients[s].imei
                  /\ clients'[s].boatId = clients[s].boatId]_vars

\* after a LOGIN has bound a device identity, a frame of type 0xFF with a
\* wrong CRC has been consumed: two frames cut, one ack written
C26_Witness ==
    \E s \in DOMAIN sockets :
        /\ sent[s] = 2 /\ Len(handed[s]) = 2
        /\ parsePacket(parser, handed[s][1]).type = "login"
        /\ UnknownFrame(handed[s][2]) /\ handed[s][2][4] = 255
        /\ ~CrcMatches(parser, handed[s][2])
        /\ clients[s].imei # <<>> /\ clients[s].buffer = <<>>
        /\ Cardinality(EventsOf(s, "write", 1)) = 1
        /\ EventsOf(s, "write", 2) = {}

\* a frame parsePacket rejects / a frame it accepts and whose CRC is right
FailedFrame(f) == parsePacket(parser, f) = Null
ValidFrame(f) == Accepted(parser, f) /\ CrcMatches(parser, f)

\* the data event now taken on socket s cuts exactly the frame f
CutsOne(s) == DataEventOn(s) /\ Len(NewFrames(s)) = 1

LoginOn(s) ==
    /\ proto = "at4" /\ CutsOne(s)
    /\ parsePacket(parser, NewFrames(s)[1]) # Null
    /\ parsePacket(parser, NewFrames(s)[1]).type = "login"

\* the vessels whose stored device identity changes in this step
ImeiChanged == {b \in DOMAIN boatImei : boatImei'[b] # boatImei[b]}

\* C30: a successful LOGIN binds the decoded device identity to its own
\* session, and a stored device identity of a vessel is updated only when
\* that session carries a port-assigned vessel id, and then only the field
\* of that vessel; a LOGIN on a session without a vessel id changes no
\* stored data; the update never delays or prevents the acknowledgement of
\* the LOGIN.
C30_LoginBindsOwnSession ==
    [][/\ \A s \in DOMAIN sockets : LoginOn(s) =>
             LET f == NewFrames(s)[1]
                 k == Len(handed'[s])
                 ack == elog'[s][Len(elog[s]) + 1]
                 started == SubSeq(tasks', Len(tasks) + 1, Len(tasks'))
             IN  /\ clients'[s].imei = BcdDigits(f, 4, 12)
                 /\ clients'[s].boatId = clients[s].boatId
                 /\ \A c \in DOMAIN clients \ {s} : clients'[c] = clients[c]
                 /\ Len(elog'[s]) > Len(elog[s])
                 /\ ack.ev = "write" /\ ack.k = k /\ AckMatches(parser, f, ack.bytes)
                 /\ boatImei' = boatImei
                 /\ IF clients[s].boatId = NoBoat THEN started = <<>>
                    ELSE /\ Len(started) = 1
                         /\ started[1].op = "imei" /\ started[1].sock = s
                         /\ started[1].boat = clients[s].boatId
                         /\ started[1].imei = BcdDigits(f, 4, 12)
       /\ ImeiChanged # {} =>
             \E i \in 1..Len(tasks) :
                 /\ tasks[i].op = "imei" /\ tasks[i].boat # NoBoat
                 /\ tasks[i].boat = assigned
                 /\ ImeiChanged = {tasks[i].boat}
                 /\ boatImei'[tasks[i].boat] = tasks[i].imei
                 /\ EventsOf(tasks[i].sock, "write", tasks[i].k) # {}
       /\ assigned \notin RegisteredBoats => boatImei' = boatImei]_vars

\* a LOGIN on a session of the port assigned to vessel 1 has been
\* acknowledged, its identity is bound to the session and stored in the
\* document of vessel 1
C30_Witness ==
    \E s \in DOMAIN clients :
        /\ proto = "at4" /\ assigned = 1
        /\ clients[s].boatId = 1
        /\ clients[s].imei # <<>>
        /\ boatImei[1] = clients[s].imei
        /\ \E k \in 1..Len(handed[s]) : EventsOf(s, "write", k) # {}
        /\ \E c \in DOMAIN clients \ {s} : clients[c].imei = <<>>

----------------------------------------------------------------------------
\* the maritime identity codes of the sentences that the segments ps
\* complete, starting with the unterminated rest buffer
RECURSIVE CodesCompleted(_, _)
CodesCompleted(ps, buffer) ==
    IF ps = <<>> THEN {}
    ELSE LET line == CompletedLine(buffer, Head(ps))
             rest == IF Head(ps).k = "head" THEN Append(buffer, Head(ps)) ELSE <<>>
         IN  (IF line.sentenceId \in {"none", "null"} THEN {} ELSE {line.mmsi})
                 \cup CodesCompleted(Tail(ps), rest)

\* the accumulators the sentences of connection c have been applied to: the
\* NMEA listener keeps them per maritime identity code
AccumulatorsOf(c) ==
    IF proto # "nmea" THEN {}
    ELSE CodesCompleted(SubSeq(stream[c], 1, sent[c]), <<>>) \ {NoMMSI}

(* C21: decode state is owned per connection: bytes or sentences received  *)
(* on one connection never change the buffer, the accumulator or the       *)
(* resolved identity of any other connection, on the binary listener and   *)
(* on the NMEA listener, under any interleaving of data events.            *)
C21_DecodeStatePerConnection ==
    [][\A s \in Conns : DataEventOn(s) =>
          \A c \in (DOMAIN clients) \ {s} :
              /\ c \in DOMAIN clients'
              /\ clients'[c] = clients[c]
              /\ \A m \in AccumulatorsOf(c) : stateByMMSI'[m] = stateByMMSI[m]]_vars

\* the end or error event of socket s happens in this step
CloseEventOn(s) == sockets[s] = "open" /\ sockets'[s] \in {"ended", "error"}

(* C22: when a connection ends or errors, exactly that connection's        *)
(* session is removed from its listener: the listener keeps listening,     *)
(* every other session keeps its buffer and identity, and the closed       *)
(* socket is never re-established by the server.                           *)
C22_CloseRemovesOneSession ==
    [][\A s \in Conns :
          /\ CloseEventOn(s) =>
                /\ s \in DOMAIN clients
                /\ DOMAIN clients' = (DOMAIN clients) \ {s}
                /\ \A c \in DOMAIN clients' : clients'[c] = clients[c]
                /\ server' = "listening"
          /\ sockets[s] \in {"ended", "error"} =>
                /\ sockets'[s] = sockets[s]
                /\ s \notin DOMAIN clients']_vars

\* a socket has been closed while another session, which has bound a
\* device identity and holds half a frame in its buffer, is still there
C22_Witness ==
    \E s \in Conns, c \in Conns :
        /\ sockets[s] \in {"ended", "error"}
        /\ s \notin DOMAIN clients
        /\ c \in DOMAIN clients
        /\ clients[c].imei # <<>>
        /\ clients[c].buffer # <<>>
        /\ server = "listening"

----------------------------------------------------------------------------
\* the restartForBoat calls issued for vessel b, in the order of issue
RestartsOf(b) == {c \in 1..Len(calls) : calls[c].op = "restart" /\ calls[c].boat = b}

AllRestartsDone(b) == \A c \in RestartsOf(b) : calls[c].pc = "done"

\* the assignment read by the restartForBoat call issued last for b
LastRead(b) == calls[CHOOSE c \in RestartsOf(b) : \A d \in RestartsOf(b) : d <= c].port

\* the vessel's listener is the one for assignment p, or there is none when
\* p is no assignment
BoundTo(b, p) ==
    IF p \in Ports
    THEN listeners[b] # 0 /\ inst[listeners[b]].port = p
    ELSE listeners[b] = 0

\* restartForBoat call c runs to its end in this step, without an exception
\* thrown by the start it made
RestartCompletes(c) ==
    /\ c \in 1..Len(calls)
    /\ calls[c].op = "restart"
    /\ calls[c].pc # "done" /\ calls'[c].pc = "done"
    /\ calls'[c].inst # 0 => inst'[calls'[c].inst].st # "threw"

(* C23: restartForVessel applies the vessel's current configuration: once  *)
(* all restartForVessel calls issued for a vessel have completed,          *)
(* including calls that overlap while one awaits the configuration read    *)
(* and the configuration is edited in between, the vessel's listener is    *)
(* bound to the port (or URL) currently stored in its configuration, or is *)
(* absent if none is configured.  Stated for the moment the last of the    *)
(* calls completes, the configuration being the one the last call read.    *)
C23_RestartAppliesCurrentConfig ==
    [][\A c \in 1..MaxCalls :
          (/\ RestartCompletes(c)
           /\ AllRestartsDone(calls[c].boat)'
           /\ cfg'[calls[c].boat] = LastRead(calls[c].boat)')
          => BoundTo(calls[c].boat, cfg[calls[c].boat])']_vars

----------------------------------------------------------------------------
(* The telemetry client and its cache of the vessel registry: start(),     *)
(* reloadBoats(), deltas, and vessels edited in the Boat collection        *)

MaxReloads == 2           \* reloadBoats() calls in one run
MaxRegDeltas == 2         \* deltas received in one run

\* a loadBoats() call suspended at `await Boat.find`; found is what the
\* query answered, order counts the calls in the order they resumed
LoadTask(by) ==
    Task("load", 0, 0, "find", NoBoat, <<>>,
         [by |-> by, found |-> {}, ok |-> FALSE, order |-> 0, outcome |-> "pending"])

Loads == {i \in 1..Len(tasks) : tasks[i].op = "load"}
LoadsDone == {i \in Loads : tasks[i].pc = "done"}

\* the deltas of these runs: each identity code or none, with a position in
\* range or without a position
RegDeltas ==
    {Delta(m, TRUE, 54 * LatScale, 18 * LatScale) : m \in {NoMMSI} \cup MMSIs}
    \cup {Delta(m, FALSE, 0, 0) : m \in {NoMMSI} \cup MMSIs}

\* start() has been called and is suspended in loadBoats()
InitReg ==
    /\ IdleBrowser
    /\ IdleServer
    /\ IdleManager
    /\ IdleDecoder
    /\ proto = "signalk" /\ parser = "strict" /\ lsnr = "assigned"
    /\ assigned = NoBoat
    /\ clients = [s \in Socks |-> [imei |-> <<>>, boatId |-> NoBoat, buffer |-> <<>>]]
    /\ stream \in [Socks -> SeqsUpTo(RegDeltas, MaxRegDeltas)]
    /\ sent = [s \in Socks |-> 0]
    /\ handed = [s \in Socks |-> <<>>]
    /\ elog = [s \in Socks |-> <<>>]
    /\ tasks = <<LoadTask("start")>>
    /\ split = [s \in Socks |-> FALSE]
    /\ boatImei = [b \in RegisteredBoats |-> <<>>]
    /\ stateByMMSI = [m \in MMSIs |-> [known |-> FALSE, hasPos |-> FALSE, lat |-> 0, lon |-> 0]]
    /\ boatsByMMSI = {}
    /\ registry \in SUBSET RegisteredMMSIs

\* reloadBoats(): await this.loadBoats()
ReloadBoats ==
    /\ Cardinality(Loads) <= MaxReloads
    /\ tasks' = Append(tasks, LoadTask("reload"))
    /\ UNCHANGED <<proto, parser, lsnr, assigned, clients, stream, sent, handed,
                   elog, split, boatImei, stateByMMSI, boatsByMMSI>>
    /\ UNCHANGED <<mgrVars, decVars, srvVars, dbVars, webVars>>

\* the database answers Boat.find of call i, or the query fails
LoadAnswered(i, dbUp) ==
    /\ i \in Loads /\ tasks[i].pc = "find"
    /\ tasks' = [tasks EXCEPT ![i].pc = "resume",
                              ![i].rec.found = IF dbUp THEN registry ELSE {},
                              ![i].rec.ok = dbUp]
    /\ UNCHANGED <<proto, parser, lsnr, assigned, clients, stream, sent, handed,
                   elog, split, boatImei, stateByMMSI, boatsByMMSI>>
    /\ UNCHANGED <<mgrVars, decVars, srvVars, dbVars, webVars>>

\* loadBoats resumes after the await: the cache is replaced, or the catch
\* block logs; either way the call returns to its caller
LoadResumed(i) ==
    /\ i \in Loads /\ tasks[i].pc = "resume"
    /\ boatsByMMSI' = CacheAfterLoad(boatsByMMSI, tasks[i].rec.found, tasks[i].rec.ok)
    /\ tasks' = [tasks EXCEPT ![i].pc = "done",
                              ![i].rec.order = Cardinality(LoadsDone) + 1,
                              ![i].rec.outcome = "returned"]
    /\ UNCHANGED <<proto, parser, lsnr, assigned, clients, stream, sent, handed,
                   elog, split, boatImei, stateByMMSI>>
    /\ UNCHANGED <<mgrVars, decVars, srvVars, dbVars, webVars>>

\* a vessel's identity code is set or removed through the vessel routes
EditRegistry(m) ==
    /\ registry' = IF m \in registry THEN registry \ {m} ELSE registry \cup {m}
    /\ UNCHANGED <<lsnVars, mgrVars, decVars, srvVars, webVars>>

\* a delta arrives on the subscription start() makes once loadBoats() has
\* returned
DeltaArrives(s) ==
    /\ tasks[1].pc = "done"
    /\ HandleDelta(s)

NextReg ==
    \/ ReloadBoats
    \/ \E i \in 1..(MaxReloads + 1), dbUp \in BOOLEAN : LoadAnswered(i, dbUp)
    \/ \E i \in 1..(MaxReloads + 1) : LoadResumed(i)
    \/ \E m \in RegisteredMMSIs : EditRegistry(m)
    \/ \E s \in Socks : DeltaArrives(s)
    \/ \E i \in 1..(MaxReloads + 1 + MaxRegDeltas), dbUp \in BOOLEAN : CreateSettled(i, dbUp)

SpecReg == InitReg /\ [][NextReg]_vars

\* the step resumes a loadBoats() call
LoadResumes(i) ==
    /\ i \in Loads /\ tasks[i].pc = "resume" /\ tasks'[i].pc = "done"

\* what the last loadBoats() call that succeeded has read from the Boat
\* collection; nothing before the first
LastLoaded ==
    LET good == {i \in LoadsDone : tasks[i].rec.ok}
    IN  IF good = {} THEN {}
        ELSE tasks[CHOOSE i \in good :
                     \A j \in good : tasks[j].rec.order <= tasks[i].rec.order].rec.found

\* the step handles the next delta of socket s
DeltaOn(s) == proto = "signalk" /\ sent'[s] = sent[s] + 1

\* C31: the registry cache of the telemetry client is written only by
\* start() and by an explicit reload call: no delta, timer or change of a
\* vessel's configuration modifies it, and every delta is matched against
\* the registry as of the last load.
C31_CacheWrittenOnlyByLoads ==
    [][/\ boatsByMMSI' # boatsByMMSI =>
             \E i \in Loads : LoadResumes(i) /\ tasks[i].rec.by \in {"start", "reload"}
       /\ \A s \in Socks : DeltaOn(s) =>
             LET d == stream[s][sent[s] + 1]
             IN  /\ boatsByMMSI' = boatsByMMSI
                 /\ Len(elog'[s]) > Len(elog[s])
                       <=> (d.mmsi \in LastLoaded /\ d.hasPos)
       /\ registry' # registry => boatsByMMSI' = boatsByMMSI]_vars

\* the identity code of vessel 1 has been removed from its document after
\* the load; a delta of that code is still matched and its position saved
C31_Witness ==
    /\ proto = "signalk" /\ tasks # <<>> /\ tasks[1].op = "load"
    /\ registry = {} /\ boatsByMMSI = {MmsiOf(1)}
    /\ \E s \in Socks :
          /\ sent[s] > 0
          /\ stream[s][sent[s]].mmsi = MmsiOf(1)
          /\ EventsOf(s, "create", sent[s]) # {}

\* C38: when the query of the vessel registry fails, loadBoats /
\* reloadBoats leaves the cached registry as it was and raises no error to
\* its caller; the cache is replaced only after a query that succeeded, by
\* what that query answered.
C38_FailedLoadKeepsCache ==
    [][\A i \in Loads : LoadResumes(i) =>
          /\ tasks'[i].rec.outcome = "returned"
          /\ IF tasks[i].rec.ok THEN boatsByMMSI' = tasks[i].rec.found
             ELSE boatsByMMSI' = boatsByMMSI]_vars

\* a reload has failed while the cache held the code of vessel 1: the call
\* has returned, the cache still holds the code, and a delta handled after
\* it has been saved
C38_Witness ==
    /\ proto = "signalk" /\ boatsByMMSI = {MmsiOf(1)}
    /\ \E i \in LoadsDone :
          /\ ~tasks[i].rec.ok /\ tasks[i].rec.by = "reload"
          /\ tasks[i].rec.outcome = "returned"
          /\ \E j \in (i + 1)..Len(tasks) : tasks[j].op = "signalk"

----------------------------------------------------------------------------
\* null and undefined both stand for a field without a value
Absent2(x) == x = NullVal \/ x = Undefined
SameValue(a, b) == (Absent2(a) /\ Absent2(b)) \/ a = b

\* two accumulators, or two emitted positions, agree on lat, lon, speed,
\* course and the time of the timestamp
SameFix(a, b) ==
    /\ SameValue(a.lat, b.lat) /\ SameValue(a.lon, b.lon)
    /\ SameValue(a.speed, b.speed) /\ SameValue(a.course, b.course)
    /\ SameValue(a.timestamp.t, b.timestamp.t)

SameFixes(ps, qs) ==
    Len(ps) = Len(qs) /\ \A j \in 1..Len(ps) : SameFix(ps[j], qs[j])

\* the batch decoder run on the sentences the live connection has consumed
BatchOnPrefix ==
    ForLoop(FilterLines(SubSeq(input, 1, lineNo)), 0,
            [currentState |-> InitialState, positions |-> <<>>, errors |-> <<>>])

\* C32: the incremental decoder (parseSentence then extractPosition,
\* sentence by sentence on one accumulator) and the batch decoder
\* (parseNMEA) are the same decode core: on every sequence of sentences
\* they update lat, lon, speed, course and timestamp identically and yield
\* the same sequence of emitted positions.
C32_LiveEqualsBatch ==
    fn = "extractPosition" =>
        /\ SameFix(currentState, BatchOnPrefix.currentState)
        /\ SameFixes(positions, BatchOnPrefix.positions)

----------------------------------------------------------------------------
(* The NMEA listener's data handler on a stream of characters              *)

\* character codes of the text a peer sends
LF == 10
CR == 13
SP == 32
BANG == 33
DOLLAR == 36

MaxNmeaLines == 3
MaxCut == 6

\* String.prototype.trim on the characters of the runs
IsBlank(c) == c \in {SP, CR, LF}

RECURSIVE TrimStart(_)
TrimStart(l) ==
    IF l = <<>> THEN <<>>
    ELSE IF IsBlank(Head(l)) THEN TrimStart(Tail(l)) ELSE l

RECURSIVE TrimEnd(_)
TrimEnd(l) ==
    IF l = <<>> THEN <<>>
    ELSE IF IsBlank(l[Len(l)]) THEN TrimEnd(SubSeq(l, 1, Len(l) - 1)) ELSE l

Trim(l) == TrimEnd(TrimStart(l))

\* one match of /\r?\n/ ends the piece cur: the optional \r belongs to the
\* separator
WithoutCR(cur) ==
    IF cur # <<>> /\ cur[Len(cur)] = CR THEN SubSeq(cur, 1, Len(cur) - 1) ELSE cur

\* buffer.split(/\r?\n/): the pieces between the separators, the text after
\* the last separator being the last piece (one piece more than separators)
RECURSIVE SplitScan(_, _, _, _)
SplitScan(buf, i, cur, out) ==
    IF i > Len(buf) THEN Append(out, cur)
    ELSE IF buf[i] = LF THEN SplitScan(buf, i + 1, <<>>, Append(out, WithoutCR(cur)))
    ELSE SplitScan(buf, i + 1, Append(cur, buf[i]), out)

SplitLines(buf) == SplitScan(buf, 1, <<>>, <<>>)

LinesPopDropped(lines) == <<>>

\* buffer = lines.pop() || '': the last piece is kept as the new buffer
LinesPop(lines) == lines[Len(lines)]

\* the lines the forEach passes on: trimmed, those that trim to '' skipped
RECURSIVE PassedLines(_, _)
PassedLines(lines, n) ==
    IF n = 0 THEN <<>>
    ELSE LET rest == PassedLines(lines, n - 1)
             t == Trim(lines[n])
         IN  IF t = <<>> THEN rest ELSE Append(rest, t)

\* the sentences of the runs and the packets the NMEA library parses them to
RmcLine == <<DOLLAR, 82>>            \* "$R"
VtgLine == <<BANG, 86>>              \* "!V"
NoiseLine == <<88, DOLLAR, 82>>      \* "X$R"

LibraryParse(l) ==
    CASE l = RmcLine -> NmeaPacket("RMC", MmsiOf(1), TRUE, 54 * LatScale, 18 * LatScale)
      [] l = VtgLine -> NmeaPacket("VTG", MmsiOf(1), FALSE, 0, 0)
      [] OTHER -> NmeaPacket("null", NoMMSI, FALSE, 0, 0)

\* parseSentence(sentence): null unless the trimmed text starts with '$' or
\* '!', else what the library parses (null when it throws)
parseSentence(l) ==
    LET trimmed == Trim(l)
    IN  IF trimmed = <<>> \/ trimmed[1] \notin {DOLLAR, BANG}
        THEN NmeaPacket("null", NoMMSI, FALSE, 0, 0)
        ELSE LibraryParse(trimmed)

\* processSentence for each passed line in turn, each up to its first
\* await: w carries stateByMMSI, the socket's log and the suspended tasks
SentenceAfter(s, k, pkt, w) ==
    LET fresh == [known |-> pkt.mmsi # NoMMSI, hasPos |-> FALSE, lat |-> 0, lon |-> 0]
        st0 == IF pkt.mmsi # NoMMSI /\ w.state[pkt.mmsi].known
               THEN w.state[pkt.mmsi] ELSE fresh
        st1 == ExtractState(pkt, st0)
        save == pkt.sentenceId # "null" /\ st1.hasPos /\ pkt.mmsi # NoMMSI
    IN  [state |-> IF pkt.sentenceId # "null" /\ pkt.mmsi # NoMMSI
                   THEN [w.state EXCEPT ![pkt.mmsi] = st1] ELSE w.state,
         log |-> IF save THEN Append(w.log, Ev("findOne", k, <<>>, NoRec)) ELSE w.log,
         tasks |-> IF save
                   THEN Append(w.tasks, Task("nmea", s, k, "find", NoBoat, <<>>,
                                             PositionOf(pkt.mmsi, st1.lat, st1.lon)))
                   ELSE w.tasks]

RECURSIVE SentencesAfter(_, _, _, _, _)
SentencesAfter(s, k0, passed, n, w) ==
    IF n = 0 THEN w
    ELSE SentenceAfter(s, k0 + n, parseSentence(passed[n]),
                       SentencesAfter(s, k0, passed, n - 1, w))

\* socket.on('data'): n more characters of the stream arrive
LineData(s, n) ==
    LET data == SubSeq(stream[s], sent[s] + 1, sent[s] + n)
        lines == SplitLines(clients[s].buffer \o data)
        passed == PassedLines(lines, Len(lines) - 1)
        w == SentencesAfter(s, Len(handed[s]), passed, Len(passed),
                            [state |-> stateByMMSI, log |-> elog[s], tasks |-> tasks])
    IN  /\ proto = "nmea"
        /\ n >= 1 /\ sent[s] + n <= Len(stream[s])
        /\ sent' = [sent EXCEPT ![s] = @ + n]
        /\ clients' = [clients EXCEPT ![s].buffer = LinesPop(lines)]
        /\ handed' = [handed EXCEPT ![s] = @ \o passed]
        /\ stateByMMSI' = w.state
        /\ elog' = [elog EXCEPT ![s] = w.log]
        /\ tasks' = w.tasks
        /\ UNCHANGED <<proto, parser, lsnr, assigned, stream, split, boatImei,
                       boatsByMMSI>>
        /\ UNCHANGED <<mgrVars, decVars, srvVars, dbVars, webVars>>

\* the texts of the runs: up to MaxNmeaLines lines, each ended by \n or
\* \r\n (the text received so far ends inside a line on the way)
TextLines == {RmcLine, VtgLine, NoiseLine, <<SP>> \o RmcLine, <<>>}
EndedLines == {l \o <<LF>> : l \in TextLines} \cup {RmcLine \o <<CR, LF>>}

LineTexts == {Flat(ls) : ls \in {<<>>} \cup SeqsUpTo(EndedLines, MaxNmeaLines)}

LineSock == {1}

InitLines ==
    /\ IdleRegistry
    /\ IdleBrowser
    /\ IdleServer
    /\ IdleManager
    /\ IdleDecoder
    /\ proto = "nmea" /\ parser = "strict" /\ lsnr = "assigned"
    /\ assigned = NoBoat
    /\ clients = [s \in Socks |-> [imei |-> <<>>, boatId |-> NoBoat, buffer |-> <<>>]]
    /\ stream \in [Socks -> LineTexts]
    /\ \A s \in Socks \ LineSock : stream[s] = <<>>
    /\ sent = [s \in Socks |-> 0]
    /\ handed = [s \in Socks |-> <<>>]
    /\ elog = [s \in Socks |-> <<>>]
    /\ tasks = <<>>
    /\ split = [s \in Socks |-> FALSE]
    /\ boatImei = [b \in RegisteredBoats |-> <<>>]
    /\ stateByMMSI = [m \in MMSIs |-> [known |-> FALSE, hasPos |-> FALSE, lat |-> 0, lon |-> 0]]
    /\ boatsByMMSI = {}

NextLines ==
    \/ \E s \in LineSock, n \in 1..MaxCut : LineData(s, n)
    \/ \E i \in 1..MaxNmeaLines : NmeaFound(i)
    \/ \E i \in 1..MaxNmeaLines, dbUp \in BOOLEAN : CreateSettled(i, dbUp)

SpecLines == InitLines /\ [][NextLines]_vars

\* what socket s has received so far
Delivered(s) == SubSeq(stream[s], 1, sent[s])

\* the positions of the line feeds of a text, and the j-th of them
LfAt(p) == {i \in 1..Len(p) : p[i] = LF}
NthLf(p, j) == CHOOSE e \in LfAt(p) : Cardinality({i \in LfAt(p) : i <= e}) = j
LastLf(p) == IF LfAt(p) = {} THEN 0 ELSE NthLf(p, Cardinality(LfAt(p)))

\* the j-th complete line of a text, without its terminator, trimmed
CompleteLine(p, j) ==
    LET e == NthLf(p, j)
        b == IF j = 1 THEN 0 ELSE NthLf(p, j - 1)
    IN  Trim(WithoutCR(SubSeq(p, b + 1, e - 1)))

\* the sentences of a text: its complete lines that are not blank, in order
SentencesOf(p) ==
    SelectSeq([j \in 1..Cardinality(LfAt(p)) |-> CompleteLine(p, j)],
              LAMBDA l : l # <<>>)

\* the lookups started for the k-th line passed on by socket s
LookupsFor(s, k) == {j \in 1..Len(elog[s]) : elog[s][j].ev = "findOne" /\ elog[s][j].k = k}

\* C33: however the text of an NMEA connection is cut into data events,
\* the lines passed to processSentence are the complete non-blank lines
\* received so far, once each and in stream order; the connection's buffer
\* holds exactly the text after the last line feed; and a line that does
\* not start with '$' or '!' starts no position lookup
C33_LinesOncePerTerminator ==
    proto = "nmea" /\ stream[1] \in LineTexts =>
        \A s \in LineSock :
            LET p == Delivered(s)
            IN  /\ handed[s] = SentencesOf(p)
                /\ clients[s].buffer = SubSeq(p, LastLf(p) + 1, Len(p))
                /\ \A k \in 1..Len(handed[s]) :
                       /\ Cardinality(LookupsFor(s, k)) <= 1
                       /\ handed[s][k][1] \notin {DOLLAR, BANG} => LookupsFor(s, k) = {}
                /\ \A i \in 1..Len(tasks) : tasks[i].k \in 1..Len(handed[s])

\* a data event ended between the \r and the \n of a terminator, after a
\* noise line and a sentence that started a lookup had been passed on
C33_Witness ==
    /\ proto = "nmea" /\ stream[1] \in LineTexts
    /\ sent[1] < Len(stream[1]) /\ stream[1][sent[1] + 1] = LF
    /\ clients[1].buffer = RmcLine \o <<CR>>
    /\ \E k \in 1..Len(handed[1]) : handed[1][k] = NoiseLine
    /\ \E k \in 1..Len(handed[1]) : handed[1][k] = RmcLine /\ LookupsFor(1, k) # {}

----------------------------------------------------------------------------
(* The frames the listener writes                                          *)

\* the layout the server parses: start bits, a length byte of the total
\* length minus FRAME_OVERHEAD, the CRC of the bytes from the length byte
\* to the CRC field in the two bytes before the stop bits
WellFormedFrame(pv, f) ==
    /\ Len(f) >= MIN_PACKET
    /\ f[1] = START_BIT /\ f[2] = START_BIT
    /\ f[3] = Len(f) - FRAME_OVERHEAD
    /\ ReadU16(f, Len(f) - 4) = calculateCRC16(pv, f, 2, Len(f) - 4)
    /\ f[Len(f) - 1] = STOP_CR /\ f[Len(f)] = STOP_LF

\* C34: every frame the listener writes to a device (the login, location
\* and heartbeat acks and the location-request command sent after a login)
\* is well-formed under the layout the server itself parses: start bits
\* 0x78 0x78, length byte = total length - 5, the CRC of bytes
\* [2, total - 4) at offset total - 4, stop bits 0x0D 0x0A.
C34_WrittenFramesWellFormed ==
    proto = "at4" =>
        \A s \in Socks : \A j \in 1..Len(elog[s]) :
            elog[s][j].ev \in {"write", "command"}
                => WellFormedFrame(parser, elog[s][j].bytes)

\* the same for the acks alone
C34_AcksWellFormed ==
    proto = "at4" =>
        \A s \in Socks : \A j \in 1..Len(elog[s]) :
            elog[s][j].ev = "write" => WellFormedFrame(parser, elog[s][j].bytes)

\* C35: for every accepted frame cut from the stream (total length =
\* length byte + 5) the serial that is decoded, and the serial echoed in the
\* ack, is the 2-byte field in front of the CRC field, bytes
\* [total - 6, total - 4) of the frame, also when the length byte is larger
\* than the nominal size of the message type.
C35_SerialIsFieldBeforeCrc ==
    proto = "at4" =>
        \A s \in Socks : \A k \in 1..Len(handed[s]) :
            LET f == handed[s][k]
            IN  Accepted(parser, f) =>
                    /\ Len(f) = TotalLength(f)
                    /\ parsePacket(parser, f).serial = WireSerial(f)
                    /\ \A j \in EventsOf(s, "write", k) :
                           AckSerial(elog[s][j].bytes) = WireSerial(f)

----------------------------------------------------------------------------
(* Stopping a listener while handlers are suspended                        *)

\* stop(): every socket of this.clients is destroyed, the collection is
\* cleared, the server is closed and this.server set to null; nothing is
\* done about handlers that are waiting for the database
ListenerStop ==
    /\ server = "listening"
    /\ server' = "null"
    /\ sockets' = [s \in DOMAIN sockets |->
                      IF s \in DOMAIN clients THEN "destroyed" ELSE sockets[s]]
    /\ clients' = <<>>
    /\ UNCHANGED <<proto, parser, lsnr, assigned, stream, sent, handed, elog,
                   tasks, split, boatImei, stateByMMSI, boatsByMMSI>>
    /\ UNCHANGED <<mgrVars, decVars, dbVars, webVars>>

NextStop ==
    \/ ListenerStop
    \/ NextSess

SpecStop == InitSess /\ [][NextStop]_vars

\* the calls that hand a position record to the persistence or broadcast
\* sink, as logged for socket s
SinkCalls(log) == SelectSeq(log, LAMBDA e : e.ev \in {"create", "publish"})

\* C36: once stop() has returned, no position record from one of the
\* listener's connections is handed to the persistence or broadcast sink,
\* even if a frame or sentence was still waiting for a vessel lookup or a
\* create call when the listener was stopped.
C36_NothingSavedAfterStop ==
    [][server = "null" =>
          \A s \in Conns : SinkCalls(elog'[s]) = SinkCalls(elog[s])]_vars

----------------------------------------------------------------------------
(* processBuffer, one iteration of its while loop at a time                *)

MaxLoopPieces == 4
MaxLoopIter == 12

\* one pass through `while (clientData.buffer.length >= 10) { ... }`: the
\* buffer it leaves, the packet it cuts (if any), and whether processBuffer
\* is over (the loop condition fails or the body returns)
BufferPass(buf) ==
    IF Len(buf) < MIN_PACKET THEN [buffer |-> buf, cut |-> <<>>, over |-> TRUE]
    ELSE LET startIndex == FindStartBits(buf)
         IN  IF startIndex = 0 - 1 THEN [buffer |-> <<>>, cut |-> <<>>, over |-> TRUE]
             ELSE LET b1 == IF startIndex > 0 THEN SliceFrom(buf, startIndex) ELSE buf
                  IN  IF Len(b1) < 3 THEN [buffer |-> b1, cut |-> <<>>, over |-> TRUE]
                      ELSE LET totalLength == TotalLength(b1)
                           IN  IF Len(b1) < totalLength
                               THEN [buffer |-> b1, cut |-> <<>>, over |-> TRUE]
                               ELSE [buffer |-> SliceFrom(b1, totalLength),
                                     cut |-> <<SliceTo(b1, totalLength)>>,
                                     over |-> FALSE]

\* what a session buffer may hold when processBuffer is entered: frames
\* with the length byte 0, bytes that are no frame, a 10-byte frame, the
\* beginning of a frame with a large length byte
LoopPieces ==
    { <<START_BIT, START_BIT, 0, 0, 0>>,
      <<START_BIT, START_BIT, 0, START_BIT, START_BIT>>,
      <<1, 2, 3>>,
      <<START_BIT>>,
      <<START_BIT, START_BIT, 5, 35, 0, 1, 0, 0, STOP_CR, STOP_LF>>,
      <<START_BIT, START_BIT, 200>> }

LoopBuffers == {Flat(ps) : ps \in SeqsUpTo(LoopPieces, MaxLoopPieces)}

InitLoop ==
    /\ IdleRegistry
    /\ IdleBrowser
    /\ IdleServer
    /\ IdleManager
    /\ IdleListener
    /\ fn = "processBuffer"
    /\ input \in LoopBuffers
    /\ currentState = input
    /\ lineNo = 0
    /\ positions = <<>>
    /\ errors = <<>>
    /\ result = [type |-> "running"]

\* the next iteration of the loop; currentState is clientData.buffer,
\* positions the packets handed to processPacket, lineNo the iterations
LoopIteration ==
    LET b == BufferPass(currentState)
    IN  /\ fn = "processBuffer" /\ result.type = "running"
        /\ lineNo < MaxLoopIter
        /\ currentState' = b.buffer
        /\ positions' = positions \o b.cut
        /\ lineNo' = lineNo + 1
        /\ result' = [type |-> IF b.over THEN "returned" ELSE "running"]
        /\ UNCHANGED <<fn, input, errors>>
        /\ UNCHANGED <<mgrVars, lsnVars, srvVars, dbVars, webVars>>

NextLoop == LoopIteration

SpecLoop == InitLoop /\ [][NextLoop]_vars

\* running code goes on to its next iteration
SpecLoopFair == SpecLoop /\ WF_vars(LoopIteration)

\* the loop and processBuffer as the listeners of the other runs use it
\* leave the same buffer and cut the same packets
LoopAgrees ==
    (fn = "processBuffer" /\ result.type = "returned") =>
        /\ currentState = ProcessBuffer(input, <<>>).buffer
        /\ positions = ProcessBuffer(input, <<>>).packets

\* C37: processBuffer terminates on every buffer content: each iteration
\* of its loop either ends the call or removes at least 5 bytes from the
\* session buffer, so the call is over after finitely many iterations,
\* also when a frame carries the length byte 0.
C37_ProcessBufferTerminates ==
    /\ [][fn = "processBuffer" =>
             \/ result'.type = "returned"
             \/ Len(currentState') + FRAME_OVERHEAD <= Len(currentState)]_vars
    /\ (fn = "processBuffer" ~> result.type = "returned")

\* the call is over after it cut two frames with the length byte 0
C37_Witness ==
    /\ fn = "processBuffer" /\ result.type = "returned"
    /\ Len(positions) >= 2
    /\ positions[1][3] = 0 /\ positions[2][3] = 0
    /\ Len(positions[1]) = FRAME_OVERHEAD

----------------------------------------------------------------------------
(* The browser clients: the NMEA relay client (nmea-client.js) and the     *)
(* wsClient module, each keeping one WebSocket and reconnecting by timer   *)

MaxWebSockets == 4        \* WebSocket objects created in a run
MaxTimers == 3            \* setTimeout calls in a run
MAX_RECONNECT_ATTEMPTS == 5

\* new WebSocket(url): the object starts in readyState CONNECTING
NewSocket(cs) == Append(cs, "connecting")

\* socket.close(): CONNECTING and OPEN become CLOSING, the close event
\* follows later; no effect on CLOSING and CLOSED
CloseCall(cs, c) ==
    IF c # 0 /\ cs[c] \in {"connecting", "open"} THEN [cs EXCEPT ![c] = "closing"] ELSE cs

\* NMEAClient.start() with a ws:// host configured (`if (_enabled) return
\* true`: nothing is done while enabled): connect() creates the socket; the
\* relay interval timer plays no part in the connection
NmeaStart ==
    /\ client = "nmea"
    /\ ~enabled
    /\ Len(conns) < MaxWebSockets
    /\ enabled' = TRUE
    /\ attempts' = 0
    /\ conns' = NewSocket(conns)
    /\ wsock' = Len(conns) + 1
    /\ UNCHANGED <<client, timers, reconnectTimer, connected>>
    /\ UNCHANGED <<mgrVars, lsnVars, decVars, srvVars, dbVars>>

\* NMEAClient.stop(): close and forget the socket, clear the reconnect timer
NmeaStop ==
    /\ client = "nmea"
    /\ enabled' = FALSE
    /\ conns' = CloseCall(conns, wsock)
    /\ wsock' = 0
    /\ timers' = IF reconnectTimer # 0 /\ timers[reconnectTimer] = "pending"
                 THEN [timers EXCEPT ![reconnectTimer] = "cleared"] ELSE timers
    /\ reconnectTimer' = 0
    /\ connected' = FALSE
    /\ attempts' = 0
    /\ UNCHANGED client
    /\ UNCHANGED <<mgrVars, lsnVars, decVars, srvVars, dbVars>>

\* the open event of socket c: its onopen handler
NmeaOpens(c) ==
    /\ client = "nmea"
    /\ c \in 1..Len(conns) /\ conns[c] = "connecting"
    /\ conns' = [conns EXCEPT ![c] = "open"]
    /\ connected' = TRUE
    /\ attempts' = 0
    /\ UNCHANGED <<client, wsock, enabled, timers, reconnectTimer>>
    /\ UNCHANGED <<mgrVars, lsnVars, decVars, srvVars, dbVars>>

\* the connection of socket c fails: the error event (its handler only
\* reports), the close event follows
SocketFails(c) ==
    /\ client \in {"nmea", "ws"}
    /\ c \in 1..Len(conns) /\ conns[c] \in {"connecting", "open"}
    /\ conns' = [conns EXCEPT ![c] = "closing"]
    /\ UNCHANGED <<client, wsock, enabled, timers, reconnectTimer, attempts, connected>>
    /\ UNCHANGED <<mgrVars, lsnVars, decVars, srvVars, dbVars>>

\* the close event of socket c: its onclose handler sets _socket = null
\* whatever _socket holds, then scheduleReconnect() (nothing unless enabled)
NmeaCloses(c) ==
    /\ client = "nmea"
    /\ c \in 1..Len(conns) /\ conns[c] # "closed"
    /\ enabled => Len(timers) < MaxTimers
    /\ conns' = [conns EXCEPT ![c] = "closed"]
    /\ connected' = FALSE
    /\ wsock' = 0
    /\ IF enabled
       THEN /\ attempts' = attempts + 1
            /\ timers' = Append(timers, "pending")
            /\ reconnectTimer' = Len(timers) + 1
       ELSE UNCHANGED <<attempts, timers, reconnectTimer>>
    /\ UNCHANGED <<client, enabled>>
    /\ UNCHANGED <<mgrVars, lsnVars, decVars, srvVars, dbVars>>

\* the reconnect timer t fires: _reconnectTimer = null; connect(), which
\* returns at once unless enabled
NmeaTimerFires(t) ==
    /\ client = "nmea"
    /\ t \in 1..Len(timers) /\ timers[t] = "pending"
    /\ enabled => Len(conns) < MaxWebSockets
    /\ timers' = [timers EXCEPT ![t] = "fired"]
    /\ reconnectTimer' = 0
    /\ IF enabled
       THEN /\ conns' = NewSocket(conns)
            /\ wsock' = Len(conns) + 1
       ELSE UNCHANGED <<conns, wsock>>
    /\ UNCHANGED <<client, enabled, attempts, connected>>
    /\ UNCHANGED <<mgrVars, lsnVars, decVars, srvVars, dbVars>>

\* wsClient.connect(): autoReconnect = true; a socket is created unless ws
\* holds one that is not CLOSED
WsConnect ==
    /\ client = "ws"
    /\ enabled' = TRUE
    /\ IF wsock = 0 \/ conns[wsock] = "closed"
       THEN /\ Len(conns) < MaxWebSockets
            /\ attempts' = 0
            /\ conns' = NewSocket(conns)
            /\ wsock' = Len(conns) + 1
       ELSE UNCHANGED <<attempts, conns, wsock>>
    /\ UNCHANGED <<client, timers, reconnectTimer, connected>>
    /\ UNCHANGED <<mgrVars, lsnVars, decVars, srvVars, dbVars>>

\* wsClient.disconnect(): autoReconnect = false; close and forget the
\* socket; the module keeps no handle of its reconnect timeout and clears
\* none
WsDisconnect ==
    /\ client = "ws"
    /\ enabled' = FALSE
    /\ conns' = CloseCall(conns, wsock)
    /\ wsock' = 0
    /\ UNCHANGED <<client, timers, reconnectTimer, attempts, connected>>
    /\ UNCHANGED <<mgrVars, lsnVars, decVars, srvVars, dbVars>>

\* the open event of socket c: ws.onopen
WsOpens(c) ==
    /\ client = "ws"
    /\ c \in 1..Len(conns) /\ conns[c] = "connecting"
    /\ conns' = [conns EXCEPT ![c] = "open"]
    /\ attempts' = 0
    /\ UNCHANGED <<client, wsock, enabled, timers, reconnectTimer, connected>>
    /\ UNCHANGED <<mgrVars, lsnVars, decVars, srvVars, dbVars>>

\* the close event of socket c: ws.onclose sets ws = null and, with
\* autoReconnect on and attempts left, sets a timeout for initWebSocket
WsCloses(c) ==
    LET again == enabled /\ attempts < MAX_RECONNECT_ATTEMPTS
    IN  /\ client = "ws"
        /\ c \in 1..Len(conns) /\ conns[c] # "closed"
        /\ again => Len(timers) < MaxTimers
        /\ conns' = [conns EXCEPT ![c] = "closed"]
        /\ wsock' = 0
        /\ IF again
           THEN /\ attempts' = attempts + 1
                /\ timers' = Append(timers, "pending")
           ELSE UNCHANGED <<attempts, timers>>
        /\ UNCHANGED <<client, enabled, reconnectTimer, connected>>
        /\ UNCHANGED <<mgrVars, lsnVars, decVars, srvVars, dbVars>>

\* a timeout set by onclose fires: initWebSocket() creates a socket
WsTimerFires(t) ==
    /\ client = "ws"
    /\ t \in 1..Len(timers) /\ timers[t] = "pending"
    /\ Len(conns) < MaxWebSockets
    /\ timers' = [timers EXCEPT ![t] = "fired"]
    /\ conns' = NewSocket(conns)
    /\ wsock' = Len(conns) + 1
    /\ UNCHANGED <<client, enabled, reconnectTimer, attempts, connected>>
    /\ UNCHANGED <<mgrVars, lsnVars, decVars, srvVars, dbVars>>

\* the NMEA client configured and not started; the wsClient module loaded
\* (its last statement calls initWebSocket())
InitBrowser ==
    /\ IdleRegistry
    /\ IdleServer
    /\ IdleManager
    /\ IdleListener
    /\ IdleDecoder
    /\ client \in {"nmea", "ws"}
    /\ conns = IF client = "ws" THEN NewSocket(<<>>) ELSE <<>>
    /\ wsock = IF client = "ws" THEN 1 ELSE 0
    /\ enabled = (client = "ws")
    /\ timers = <<>>
    /\ reconnectTimer = 0
    /\ attempts = 0
    /\ connected = FALSE

NextBrowser ==
    \/ NmeaStart
    \/ NmeaStop
    \/ \E c \in 1..MaxWebSockets : NmeaOpens(c)
    \/ \E c \in 1..MaxWebSockets : SocketFails(c)
    \/ \E c \in 1..MaxWebSockets : NmeaCloses(c)
    \/ \E t \in 1..MaxTimers : NmeaTimerFires(t)
    \/ WsConnect
    \/ WsDisconnect
    \/ \E c \in 1..MaxWebSockets : WsOpens(c)
    \/ \E c \in 1..MaxWebSockets : WsCloses(c)
    \/ \E t \in 1..MaxTimers : WsTimerFires(t)

SpecBrowser == InitBrowser /\ [][NextBrowser]_vars

OpenSockets == {c \in 1..Len(conns) : conns[c] = "open"}

\* C39: the NMEA relay client holds at most one open connection at any
\* time, and between stop() and the next start() no connection is created
\* and no reconnect is scheduled, under any interleaving of start(), stop()
\* and socket events, a late close event of an old socket included.
C39_OneConnectionAndQuietWhenStopped ==
    /\ [](client = "nmea" => Cardinality(OpenSockets) <= 1)
    /\ [][(client = "nmea" /\ ~enabled /\ ~enabled') =>
             (Len(conns') = Len(conns) /\ Len(timers') = Len(timers))]_vars

\* the second half of C39 alone
C39_QuietWhenStopped ==
    [][(client = "nmea" /\ ~enabled /\ ~enabled') =>
          (Len(conns') = Len(conns) /\ Len(timers') = Len(timers))]_vars

\* C40: after wsClient.disconnect() has returned no new WebSocket is
\* created until wsClient.connect() is called, also when a reconnect timer
\* set by an earlier close event is pending at the disconnect.
C40_NoSocketAfterDisconnect ==
    [][(client = "ws" /\ ~enabled /\ ~enabled') => Len(conns') = Len(conns)]_vars

====
